---- MODULE Spec2Model ----
(***************************************************************************)
(* Model of the awsloc pipeline (Kuroko-shiro/cc_lambda):                  *)
(*   Merge   (awsloc-processor.py)  raw object  -> points.jsonl            *)
(*   Segment (awsloc-stay.py)       points      -> stays / visits          *)
(*   Trips   (awsloc-trip.py)       stays       -> trips / geojson         *)
(*                                                                         *)
(* Scaling used throughout.                                                *)
(*  - An instant is an integer number of "milliseconds"; a second has      *)
(*    MsPerSec of them and a UTC day has SecsPerDay seconds.  An ISO-8601  *)
(*    string is a sequence of one-character strings  D "T" S [ "." F ] "Z" *)
(*    (one digit for the date, one for the second of the day, an optional  *)
(*    fraction), compared as Python compares str: by code point.           *)
(*  - A latitude is an integer number of units; LatUnitsPerMicroDeg units  *)
(*    make 1e-6 degree, so round(lat, 6) is rounding to a multiple of it.  *)
(*    All points lie on one meridian (lon = 0), where the haversine        *)
(*    distance is R * |dlat|: MmPerLatUnit millimetres per unit.           *)
(***************************************************************************)
EXTENDS Integers, Sequences, FiniteSets, TLC

VARIABLES
    files,      \* Merge: day prefix -> lines of processed/{dev}/date={day}/points.jsonl
    stubs,      \* Merge: day prefix -> count written to diary_stub.txt
    invoked,    \* Merge: day prefixes for which the Segment stage was invoked
    now,        \* the wall clock, in model milliseconds
    lastRaw,    \* history: the event processed by the latest Merge invocation
    prevFiles,  \* history: files before the latest Merge invocation
    lastNow,    \* history: the clock read by the latest Merge invocation
    nMerge,     \* number of Merge invocations so far
    segPoints,  \* Segment: the points given to detect_segments, in time order
    segRadius,  \* Segment: radius_m
    segMinDur,  \* Segment: min_dur_sec
    segWins,    \* Segment: the windows points[lo:hi] of the returned segments
    segOut,     \* Segment: what detect_segments returned
    segRan,     \* Segment: whether detect_segments has run
    tripStays,  \* Trips: the array read from stays_enriched.json
    tripRouter, \* Trips: how the route calculator behaved in the run
    tripsJson,  \* Trips: the array written to trips.json
    geoJson,    \* Trips: the features written to geojson.json
    tripRan,    \* Trips: whether the stage has run
    ingBody,    \* Ingest: the body of the request
    ingEnv,     \* Ingest: how the tracker, the geocoder and the store behaved
    ingResp,    \* Ingest: what lambda_handler returned, or that it raised
    ingPuts,    \* Ingest: the keys of the put_object calls made
    ingCalls,   \* Ingest: the number of tracker update calls made
    rawStore,   \* Ingest: key -> raw object stored under raw/
    ingRan,     \* Ingest: whether the handler has run
    bucket,     \* pipeline: key -> object of RAW_BUCKET
    pipeEv,     \* pipeline: the latest handler invocation (stage, event, services)
    pipeOut,    \* pipeline: its effects (keys written, raised, store calls)
    nRuns,      \* pipeline: number of handler invocations so far
    racePc,     \* concurrent Merge: where each invocation is (idle, start, read)
    raceRaw,    \* concurrent Merge: the raw object each invocation processes
    raceSnap,   \* concurrent Merge: the store as each invocation read it
    raceOverlap,\* concurrent Merge: two invocations were between read and write at once
    raceMerged, \* concurrent Merge: the points of the invocations that completed
    txIn,       \* Merge transaction: the records and the behaviour of the services
    tx,         \* Merge transaction: the calls made, in order, and the result
    enIn,       \* enrich_stays / enrich_visits: the segments, each with the outcomes of its calls
    enOut,      \* enrich_stays / enrich_visits: the enriched segments and the calls made
    enKind,     \* enrich_stays / enrich_visits: which of the two ran ("" before)
    chPc,       \* Merge then Segment: where the Segment invocation of each merge is
    chSnap      \* Merge then Segment: the store as each Segment invocation read it

mergeVars == <<files, stubs, invoked, now, lastRaw, prevFiles, lastNow, nMerge>>

segVars == <<segPoints, segRadius, segMinDur, segWins, segOut, segRan>>

tripVars == <<tripStays, tripRouter, tripsJson, geoJson, tripRan>>

ingVars == <<ingBody, ingEnv, ingResp, ingPuts, ingCalls, rawStore, ingRan>>

pipeVars == <<bucket, pipeEv, pipeOut, nRuns>>

raceVars == <<racePc, raceRaw, raceSnap, raceOverlap, raceMerged>>

txVars == <<txIn, tx>>

enVars == <<enIn, enOut, enKind>>

chVars == <<chPc, chSnap>>

notMergeVars == <<segVars, tripVars, ingVars, pipeVars, raceVars, txVars, enVars, chVars>>

notSegVars == <<mergeVars, tripVars, ingVars, pipeVars, raceVars, txVars, enVars, chVars>>

notTripVars == <<mergeVars, segVars, ingVars, pipeVars, raceVars, txVars, enVars, chVars>>

notIngVars == <<mergeVars, segVars, tripVars, pipeVars, raceVars, txVars, enVars, chVars>>

notPipeVars == <<mergeVars, segVars, tripVars, ingVars, raceVars, txVars, enVars, chVars>>

notRaceVars == <<segVars, tripVars, ingVars, pipeVars, txVars, enVars, chVars>>

notTxVars == <<segVars, tripVars, ingVars, pipeVars, raceVars, enVars, chVars>>

notEnVars == <<mergeVars, segVars, tripVars, ingVars, pipeVars, raceVars, txVars, chVars>>

notChVars == <<mergeVars, segVars, tripVars, ingVars, raceVars, txVars, enVars>>

vars == <<mergeVars, segVars, tripVars, ingVars, pipeVars, raceVars, txVars, enVars, chVars>>

----------------------------------------------------------------------------
(* Bounds of the model *)

MaxMerge == 3      \* Merge invocations per behaviour
MaxTicks == 2      \* clock advances per behaviour
MaxPts == 3        \* points given to detect_segments
MaxStays == 3      \* stays in stays_enriched.json
MaxLocs == 2       \* locations in the body of an Ingest request
MaxRuns == 3       \* handler invocations on the pipeline's store
MaxChain == 2       \* raw objects merged while Segment invocations are in flight
MaxSegs == 2        \* segments given to enrich_stays / enrich_visits
MaxTx == 2          \* Merge transactions with failing services per behaviour
MaxRecs == 2       \* records in the event of a handler invocation

----------------------------------------------------------------------------
(* Strings: Python str comparison is lexicographic by code point *)

Ord ==
    [c \in {".", "0", "1", "2", "3", "4", "5", "6", "7", "8", "9", "T", "Z", "x"} |->
        CASE c = "." -> 46
          [] c = "0" -> 48 [] c = "1" -> 49 [] c = "2" -> 50 [] c = "3" -> 51
          [] c = "4" -> 52 [] c = "5" -> 53 [] c = "6" -> 54 [] c = "7" -> 55
          [] c = "8" -> 56 [] c = "9" -> 57
          [] c = "T" -> 84 [] c = "Z" -> 90 [] c = "x" -> 120]

Digits == <<"0", "1", "2", "3", "4", "5", "6", "7", "8", "9">>

DigitChar(n) == Digits[n + 1]

IsDigit(c) == \E n \in 0..9 : DigitChar(n) = c

DigitVal(c) == CHOOSE n \in 0..9 : DigitChar(n) = c

RECURSIVE StrLess(_, _)
StrLess(a, b) ==
    IF b = <<>> THEN FALSE
    ELSE IF a = <<>> THEN TRUE
    ELSE IF Ord[Head(a)] < Ord[Head(b)] THEN TRUE
    ELSE IF Ord[Head(a)] > Ord[Head(b)] THEN FALSE
    ELSE StrLess(Tail(a), Tail(b))

StrLeq(a, b) == a = b \/ StrLess(a, b)

----------------------------------------------------------------------------
(* Time: datetime.fromtimestamp(..).isoformat() and datetime.fromisoformat *)

MsPerSec == 2      \* 1000 in the source
SecsPerDay == 2    \* 86400 in the source
MsCut == 16        \* 1e12 in the source: larger numbers are milliseconds
DayLen == 1        \* ts_iso[:10] in the source: the length of the date part
NoParse == 0 - 1

\* datetime.isoformat().replace("+00:00", "Z"): the fraction is printed only
\* when it is not zero.
FormatUtc(t) ==
    LET sec  == t \div MsPerSec
        frac == t % MsPerSec
    IN  <<DigitChar(sec \div SecsPerDay), "T", DigitChar(sec % SecsPerDay)>>
        \o (IF frac = 0 THEN <<>> ELSE <<".", DigitChar((frac * 10) \div MsPerSec)>>)
        \o <<"Z">>

\* datetime.fromisoformat(s.replace("Z", "+00:00")): the instant, or NoParse
\* where Python raises ValueError.
ParseIso(s) ==
    IF /\ Len(s) = 4
       /\ IsDigit(s[1]) /\ s[2] = "T" /\ IsDigit(s[3]) /\ s[4] = "Z"
       /\ DigitVal(s[3]) < SecsPerDay
    THEN (DigitVal(s[1]) * SecsPerDay + DigitVal(s[3])) * MsPerSec
    ELSE IF /\ Len(s) = 6
            /\ IsDigit(s[1]) /\ s[2] = "T" /\ IsDigit(s[3]) /\ s[4] = "."
            /\ IsDigit(s[5]) /\ s[6] = "Z"
            /\ DigitVal(s[3]) < SecsPerDay
    THEN (DigitVal(s[1]) * SecsPerDay + DigitVal(s[3])) * MsPerSec
         + (DigitVal(s[5]) * MsPerSec) \div 10
    ELSE NoParse

\* A JSON timestamp value: k is "none" (absent or null), "num", "str" or
\* "other" (any other JSON type); n is the number, s the string.
TsNone == [k |-> "none", n |-> 0, s |-> <<>>]
TsNum(n) == [k |-> "num", n |-> n, s |-> <<>>]
TsStr(s) == [k |-> "str", n |-> 0, s |-> s]
TsOther == [k |-> "other", n |-> 0, s |-> <<>>]

\* iso(dt), reading the clock `clock` where the source calls utcnow().
iso(dt, clock) ==
    IF dt.k = "num"
    THEN FormatUtc(IF dt.n > MsCut THEN dt.n ELSE dt.n * MsPerSec)
    ELSE IF dt.k = "str"
    THEN IF ParseIso(dt.s) # NoParse THEN FormatUtc(ParseIso(dt.s)) ELSE dt.s
    ELSE FormatUtc(clock)

day_from_iso(ts_iso) ==
    SubSeq(ts_iso, 1, IF Len(ts_iso) < DayLen THEN Len(ts_iso) ELSE DayLen)

----------------------------------------------------------------------------
(* Merge: awsloc-processor.py *)

NoneVal == 0 - 2            \* a JSON field that is absent or null
BadVal == 0 - 3             \* a JSON value float() rejects
LatUnitsPerMicroDeg == 3    \* model units per 1e-6 degree

\* float(v) raises for an absent, null or non-numeric v
FloatRaises(v) == v = NoneVal \/ v = BadVal

\* round(x, 6) for x >= 0, in units; LatUnitsPerMicroDeg is odd, so there is
\* no tie.
Round6(x) == (2 * x + LatUnitsPerMicroDeg) \div (2 * LatUnitsPerMicroDeg)

Loc(lat, lon, ts) == [lat |-> lat, lon |-> lon, timestamp |-> ts]

Payload(dev, isBatch, locs) == [deviceId |-> dev, isBatch |-> isBatch, locations |-> locs]

Point(dev, lat, lon, ts) == [deviceId |-> dev, lat |-> lat, lon |-> lon, ts |-> ts]

\* normalize_payload: both forms keep a location only when lat, lon and
\* timestamp are all not None, and normalise its timestamp with iso().
normalize_payload(payload, clock) ==
    LET kept == SelectSeq(payload.locations,
                    LAMBDA p : ~(p.lat = NoneVal \/ p.lon = NoneVal \/ p.timestamp.k = "none"))
    IN  [i \in 1..Len(kept) |->
            Point(payload.deviceId, kept[i].lat, kept[i].lon, iso(kept[i].timestamp, clock))]

\* load_existing_jsonl: the lines of the object, or [] when the object is
\* absent or the read raises (getFails); a line whose lat or lon is None,
\* or makes float() raise, is left out.
load_existing_jsonl(store, key, getFails) ==
    IF getFails \/ key \notin DOMAIN store THEN <<>>
    ELSE SelectSeq(store[key], LAMBDA r : ~(FloatRaises(r.lat) \/ FloatRaises(r.lon)))

\* norm(p) in write_merged_jsonl: p.get("ts") or iso(p.get("timestamp")).
\* No record has a "timestamp" field, so an empty ts becomes iso(None).
norm(p, clock) ==
    Point(p.deviceId, p.lat, p.lon, IF p.ts # <<>> THEN p.ts ELSE iso(TsNone, clock))

DedupKey(q) == <<q.ts, Round6(q.lat), Round6(q.lon)>>

\* the seen/uniq loop: the first occurrence of a key wins
RECURSIVE Dedup(_, _, _)
Dedup(merged, seen, clock) ==
    IF merged = <<>> THEN <<>>
    ELSE LET q == norm(Head(merged), clock)
             k == DedupKey(q)
         IN  IF k \in seen THEN Dedup(Tail(merged), seen, clock)
             ELSE <<q>> \o Dedup(Tail(merged), seen \cup {k}, clock)

\* list.sort(key=lambda x: x["ts"]) is stable and compares the ts strings
RECURSIVE InsertByTs(_, _)
InsertByTs(sorted, x) ==
    IF sorted = <<>> THEN <<x>>
    ELSE IF StrLess(x.ts, Head(sorted).ts) THEN <<x>> \o sorted
    ELSE <<Head(sorted)>> \o InsertByTs(Tail(sorted), x)

RECURSIVE SortByTs(_)
SortByTs(s) ==
    IF s = <<>> THEN <<>>
    ELSE InsertByTs(SortByTs(SubSeq(s, 1, Len(s) - 1)), s[Len(s)])

\* write_merged_jsonl that writes the new records without the existing ones
write_new_only(store, key, new_records, clock, getFails) ==
    SortByTs(Dedup(new_records, {}, clock))

\* write_merged_jsonl: the lines written to `key`
write_merged_jsonl(store, key, new_records, clock, getFails) ==
    LET existing == load_existing_jsonl(store, key, getFails)
        merged   == existing \o new_records
    IN  SortByTs(Dedup(merged, {}, clock))

\* by_day: the days of the points, in order of first occurrence
RECURSIVE DaysOf(_, _)
DaysOf(points, seen) ==
    IF points = <<>> THEN <<>>
    ELSE LET d == day_from_iso(Head(points).ts)
         IN  IF d \in seen THEN DaysOf(Tail(points), seen)
             ELSE <<d>> \o DaysOf(Tail(points), seen \cup {d})

Put(f, k, v) == [x \in DOMAIN f \cup {k} |-> IF x = k THEN v ELSE f[x]]

\* The loop of process_raw_object over by_day.items(): per day, the merged
\* points.jsonl, the Segment invocation and the diary stub.
RECURSIVE MergeDays(_, _, _, _, _)
MergeDays(st, days, points, clock, getFails) ==
    IF days = <<>> THEN st
    ELSE LET day  == Head(days)
             recs == SelectSeq(points, LAMBDA p : day_from_iso(p.ts) = day)
             st2  == [files   |-> Put(st.files, day,
                                      write_merged_jsonl(st.files, day, recs, clock, getFails)),
                      invoked |-> st.invoked \cup {day},
                      stubs   |-> Put(st.stubs, day, Len(recs))]
         IN  MergeDays(st2, Tail(days), points, clock, getFails)

\* process_raw_object(bucket, key): ev.isRaw says whether the key is under
\* raw/ of RAW_BUCKET, ev.payload is what read_raw_object returns.
process_raw_object(st, ev, clock, getFails) ==
    IF ~ev.isRaw THEN st
    ELSE LET points == normalize_payload(ev.payload, clock)
         IN  IF points = <<>> THEN st
             ELSE MergeDays(st, DaysOf(points, {}), points, clock, getFails)

----------------------------------------------------------------------------
(* Inputs of Merge *)

Lats == {0, 1, 3}      \* 0 and 1 agree after round(., 6); 3 does not

\* Day 5 is seconds 10..11, day 6 is seconds 12..13; 21 is 10.5 s given in
\* milliseconds.
SecA == 10
MsAHalf == 21
SecB == 12

BadStrings == {<<>>, <<"x">>}

Singles ==
    {Payload("d1", FALSE, <<Loc(lat, 0, ts)>>) :
        lat \in Lats, ts \in {TsNum(SecA), TsNum(MsAHalf)}}
    \cup
    {Payload("d1", FALSE, <<Loc(0, 0, ts)>>) :
        ts \in {TsNum(SecB), TsStr(<<"5", "T", "0", ".", "0", "Z">>), TsOther, TsNone}
               \cup {TsStr(s) : s \in BadStrings}}

BatchLocs == {Loc(0, 0, TsNum(SecA)), Loc(0, 0, TsNum(SecB)), Loc(NoneVal, 0, TsNum(SecA))}

Batches == {Payload("d1", TRUE, <<a, b>>) : a \in BatchLocs, b \in BatchLocs}

RawObjects == Singles \cup Batches

Events ==
    {[isRaw |-> TRUE, payload |-> p] : p \in RawObjects}
    \cup {[isRaw |-> FALSE, payload |-> Payload("d1", FALSE, <<Loc(0, 0, TsNum(SecA))>>)]}

NoEvent == [isRaw |-> FALSE, payload |-> Payload("", FALSE, <<>>)]

NowStart == 28     \* the clock starts on day 7

\* the Merge invocations that may run at the same time
Invocations == {1, 2}

\* raw objects of one point: three of day 5, one of day 6
RaceRaws ==
    {[isRaw |-> TRUE, payload |-> Payload("d1", FALSE, <<Loc(lat, 0, TsNum(SecA))>>)] :
        lat \in {0, 3}}
    \cup {[isRaw |-> TRUE, payload |-> Payload("d1", FALSE, <<Loc(0, 0, ts)>>)] :
            ts \in {TsNum(MsAHalf), TsNum(SecB)}}

----------------------------------------------------------------------------
(* Merge: state machine *)

EmptyStore == [d \in {} |-> <<>>]

\* the wall clock advances
Tick ==
    /\ now < NowStart + MaxTicks
    /\ now' = now + 1
    /\ UNCHANGED <<files, stubs, invoked, lastRaw, prevFiles, lastNow, nMerge>>
    /\ UNCHANGED notMergeVars

\* lambda_handler of Merge for one record, run to completion (no concurrent
\* invocation, every store call succeeds)
Merge(ev) ==
    /\ nMerge < MaxMerge
    /\ LET st == process_raw_object(
                     [files |-> files, invoked |-> invoked, stubs |-> stubs], ev, now, FALSE)
       IN  /\ files' = st.files
           /\ invoked' = st.invoked
           /\ stubs' = st.stubs
    /\ lastRaw' = ev
    /\ prevFiles' = files
    /\ lastNow' = now
    /\ nMerge' = nMerge + 1
    /\ UNCHANGED now
    /\ UNCHANGED notMergeVars

MergeNext ==
    \/ Tick
    \/ \E ev \in Events : Merge(ev)


----------------------------------------------------------------------------
(* Segment: awsloc-stay.py *)

MmPerLatUnit == 37     \* R * radians(1e-6 / LatUnitsPerMicroDeg) = 0.0371 m
MmPerM == 1000

SegPoint(lat, lon, ts) == [lat |-> lat, lon |-> lon, ts |-> ts]

\* Python's points[a:b]
Slice(points, a, b) == SubSeq(points, a + 1, b)

RECURSIVE SumLat(_)
SumLat(ws) == IF ws = <<>> THEN 0 ELSE Head(ws).lat + SumLat(Tail(ws))

RECURSIVE SumLon(_)
SumLon(ws) == IF ws = <<>> THEN 0 ELSE Head(ws).lon + SumLon(Tail(ws))

\* centroid(ws): the means, kept as the sums over the count
centroid(ws) == [latSum |-> SumLat(ws), lonSum |-> SumLon(ws), n |-> Len(ws)]

Abs(x) == IF x < 0 THEN 0 - x ELSE x

\* haversine_m(latc, lonc, p.lat, p.lon) * n in millimetres, for a point on
\* the meridian of the centroid c: R * |p.lat - latc|
haversine_mm_n(c, p) == Abs(p.lat * c.n - c.latSum) * MmPerLatUnit

\* max_r * n in millimetres: the largest distance from the centroid
MaxOf(S) ==
    IF S = {} THEN 0
    ELSE LET x == CHOOSE y \in S : \A z \in S : z <= y IN x

max_r_mm_n(window) ==
    LET c == centroid(window)
    IN  MaxOf({haversine_mm_n(c, window[k]) : k \in 1..Len(window)})

\* iso2dt: the instant of an ISO string
iso2dt(s) == ParseIso(s)

\* dur >= min_dur_sec, with dur = (iso2dt(last.ts) - iso2dt(first.ts)).total_seconds()
DurAtLeast(window, min_dur_sec) ==
    iso2dt(window[Len(window)].ts) - iso2dt(window[1].ts) >= min_dur_sec * MsPerSec

\* the while loop with start_idx = i - 2 when the radius is exceeded: the
\* next window restarts at the last point of the window just tested
RECURSIVE SegLoopShared(_, _, _, _, _, _)
SegLoopShared(points, radius_m, min_dur_sec, start_idx, i, wins) ==
    IF i > Len(points) THEN [start_idx |-> start_idx, wins |-> wins]
    ELSE LET window   == Slice(points, start_idx, i)
             exceeded == max_r_mm_n(window) > radius_m * MmPerM * Len(window)
             emit     == exceeded /\ DurAtLeast(window, min_dur_sec) /\ Len(window) > 1
         IN  SegLoopShared(points, radius_m, min_dur_sec,
                           IF exceeded THEN i - 2 ELSE start_idx,
                           i + 1,
                           IF emit
                           THEN Append(wins, [lo |-> start_idx, hi |-> i - 1, restart |-> i - 2])
                           ELSE wins)

\* the while loop that leaves start_idx as it is when the radius is exceeded
RECURSIVE SegLoopNoRestart(_, _, _, _, _, _)
SegLoopNoRestart(points, radius_m, min_dur_sec, start_idx, i, wins) ==
    IF i > Len(points) THEN [start_idx |-> start_idx, wins |-> wins]
    ELSE LET window   == Slice(points, start_idx, i)
             exceeded == max_r_mm_n(window) > radius_m * MmPerM * Len(window)
             emit     == exceeded /\ DurAtLeast(window, min_dur_sec) /\ Len(window) > 1
         IN  SegLoopNoRestart(points, radius_m, min_dur_sec, start_idx, i + 1,
                              IF emit
                              THEN Append(wins, [lo |-> start_idx, hi |-> i - 1,
                                                 restart |-> start_idx])
                              ELSE wins)

\* the while loop of detect_segments; wins collects the slices [lo, hi) of
\* the emitted segments, each with the start_idx the loop goes on with
\* (restart; the tail window has none)
RECURSIVE SegLoop(_, _, _, _, _, _)
SegLoop(points, radius_m, min_dur_sec, start_idx, i, wins) ==
    IF i > Len(points) THEN [start_idx |-> start_idx, wins |-> wins]
    ELSE LET window   == Slice(points, start_idx, i)
             exceeded == max_r_mm_n(window) > radius_m * MmPerM * Len(window)
             emit     == exceeded /\ DurAtLeast(window, min_dur_sec) /\ Len(window) > 1
         IN  SegLoop(points, radius_m, min_dur_sec,
                     IF exceeded THEN i - 1 ELSE start_idx,
                     i + 1,
                     IF emit
                     THEN Append(wins, [lo |-> start_idx, hi |-> i - 1, restart |-> i - 1])
                     ELSE wins)

\* the flush with "dur > min_dur_sec" in place of "dur >= min_dur_sec"
TailFlushStrict(points, min_dur_sec, start_idx, wins) ==
    IF /\ start_idx < Len(points)
       /\ DurAtLeast(Slice(points, start_idx, Len(points)), min_dur_sec)
       /\ iso2dt(points[Len(points)].ts) - iso2dt(points[start_idx + 1].ts)
              # min_dur_sec * MsPerSec
    THEN Append(wins, [lo |-> start_idx, hi |-> Len(points), restart |-> NoneVal])
    ELSE wins

\* the flush without the test of the duration
TailFlushAlways(points, min_dur_sec, start_idx, wins) ==
    IF start_idx < Len(points)
    THEN Append(wins, [lo |-> start_idx, hi |-> Len(points), restart |-> NoneVal])
    ELSE wins

\* the flush of the tail window after the loop
TailFlush(points, min_dur_sec, start_idx, wins) ==
    IF /\ start_idx < Len(points)
       /\ DurAtLeast(Slice(points, start_idx, Len(points)), min_dur_sec)
    THEN Append(wins, [lo |-> start_idx, hi |-> Len(points), restart |-> NoneVal])
    ELSE wins

detect_windows(points, radius_m, min_dur_sec) ==
    IF Len(points) = 0 THEN <<>>
    ELSE LET r == SegLoop(points, radius_m, min_dur_sec, 0, 1, <<>>)
         IN  TailFlush(points, min_dur_sec, r.start_idx, r.wins)

\* segs.append({"center": .., "start": w[0]["ts"], "end": w[-1]["ts"]})
SegmentOf(points, w) ==
    LET ws == Slice(points, w.lo, w.hi)
    IN  [center |-> centroid(ws), start |-> ws[1].ts, end |-> ws[Len(ws)].ts]

detect_segments(points, radius_m, min_dur_sec) ==
    LET wins == detect_windows(points, radius_m, min_dur_sec)
    IN  [k \in 1..Len(wins) |-> SegmentOf(points, wins[k])]

----------------------------------------------------------------------------
(* Inputs of detect_segments *)

\* 3000 units are 111 m, 30000 units are 1.1 km
SegLats == {0, 3000, 30000}
Radii == {50, 200}
MinDurs == {1, 2}
Gaps == {0, 1, 2}          \* milliseconds between consecutive points
FirstInstant == SecA * MsPerSec
MaxInstant == 10 * SecsPerDay * MsPerSec - 1

----------------------------------------------------------------------------
(* Trips: awsloc-trip.py *)

Center(lat, lon) == [lat |-> lat, lon |-> lon]

\* a stay of stays_enriched.json; an absent start or end is <<>>
Stay(center, start, end, label) ==
    [center |-> center, start |-> start, end |-> end, label |-> label]

\* a or b, for strings and None
OrElse(a, b) == IF a # <<>> THEN a ELSE b

_safe_float(v) == IF v = BadVal THEN NoneVal ELSE v

_stay_center_ok(stay) == ~(stay.center.lat = NoneVal \/ stay.center.lon = NoneVal)

\* haversine_km on one meridian, in millimetres
haversine_km(lat1, lon1, lat2, lon2) == Abs(lat2 - lat1) * MmPerLatUnit

\* round(float(dist_km), 3): millimetres to metres
RoundKm3(mm) == (mm + MmPerM \div 2) \div MmPerM

\* What the route calculator does in a run: k is "unconfigured" (no
\* ROUTE_CALCULATOR), "error" (calculate_route raises) or "resp"; a response
\* has a Summary Distance (hasDist, dist in millimetres) or none, and legs:
\* "none", "nolinestring", "badpoints" (no point of the LineString is
\* numeric) or "line".
Router(k, hasDist, dist, legs) == [k |-> k, hasDist |-> hasDist, dist |-> dist, legs |-> legs]

\* the LineString of a routed leg, as [lon, lat] pairs
RouteLine(src_lon, src_lat, dst_lon, dst_lat) ==
    << <<src_lon, src_lat>>, <<src_lon, dst_lat>>, <<dst_lon, dst_lat>> >>

RouteResult(coords, dist, fb) == [coords |-> coords, dist |-> dist, fallback |-> fb]

build_route_coords(src_lon, src_lat, dst_lon, dst_lat, router) ==
    LET fallback == << <<src_lon, src_lat>>, <<dst_lon, dst_lat>> >>
        hav      == haversine_km(src_lat, src_lon, dst_lat, dst_lon)
        \* dist_km or haversine_km(..): None and 0.0 are both falsy
        distOr   == IF router.hasDist /\ router.dist # 0 THEN router.dist ELSE hav
    IN  IF src_lon = NoneVal \/ src_lat = NoneVal \/ dst_lon = NoneVal \/ dst_lat = NoneVal
        THEN RouteResult(fallback, NoneVal, TRUE)
        ELSE IF router.k = "unconfigured" THEN RouteResult(fallback, hav, TRUE)
        ELSE IF router.k = "error" THEN RouteResult(fallback, hav, TRUE)
        ELSE IF router.legs = "none" THEN RouteResult(fallback, distOr, TRUE)
        ELSE IF router.legs = "nolinestring" THEN RouteResult(fallback, distOr, TRUE)
        ELSE IF router.legs = "badpoints" THEN RouteResult(fallback, distOr, TRUE)
        ELSE RouteResult(RouteLine(src_lon, src_lat, dst_lon, dst_lat), distOr, FALSE)

\* _key(s): s.get("end") or s.get("start") or ""
StayKey(stay) == OrElse(stay.end, OrElse(stay.start, <<>>))

\* sorted(stays, key=_key) is stable and compares the keys as strings
RECURSIVE InsertByKey(_, _)
InsertByKey(sorted, x) ==
    IF sorted = <<>> THEN <<x>>
    ELSE IF StrLess(StayKey(x), StayKey(Head(sorted))) THEN <<x>> \o sorted
    ELSE <<Head(sorted)>> \o InsertByKey(Tail(sorted), x)

RECURSIVE SortStays(_)
SortStays(s) ==
    IF s = <<>> THEN <<>>
    ELSE InsertByKey(SortStays(SubSeq(s, 1, Len(s) - 1)), s[Len(s)])

\* the trip of the pair (a, b), with the coordinates of its route
TripOf(a, b, router) ==
    LET src_lat == _safe_float(a.center.lat)
        src_lon == _safe_float(a.center.lon)
        dst_lat == _safe_float(b.center.lat)
        dst_lon == _safe_float(b.center.lon)
        r       == build_route_coords(src_lon, src_lat, dst_lon, dst_lat, router)
    IN  [trip |->
            [from |-> [time |-> OrElse(a.end, a.start), lat |-> src_lat, lon |-> src_lon,
                       label |-> a.label],
             to   |-> [time |-> OrElse(b.start, b.end), lat |-> dst_lat, lon |-> dst_lon,
                       label |-> b.label],
             distance_km |-> IF r.dist # NoneVal THEN RoundKm3(r.dist) ELSE NoneVal,
             fallback |-> r.fallback],
         coords |-> r.coords]

\* for i in range(len(stays_sorted) - 1), from index i (1-based)
RECURSIVE TripLoop(_, _, _)
TripLoop(stays_sorted, i, router) ==
    IF i > Len(stays_sorted) - 1 THEN <<>>
    ELSE LET a == stays_sorted[i]
             b == stays_sorted[i + 1]
         IN  IF ~_stay_center_ok(a) \/ ~_stay_center_ok(b)
             THEN TripLoop(stays_sorted, i + 1, router)
             ELSE <<TripOf(a, b, router)>> \o TripLoop(stays_sorted, i + 1, router)

\* the same loop with a stay whose center is missing left out before the
\* pairing, so that a trip bridges over it
make_trips_bridging(stays, router) ==
    TripLoop(SelectSeq(SortStays(stays), _stay_center_ok), 1, router)

make_trips_from_stays(stays, router) ==
    IF Len(stays) < 2 THEN <<>>
    ELSE TripLoop(SortStays(stays), 1, router)

\* save_outputs: trips.json and the features of geojson.json
TripsOnly(trips_with_coords) ==
    [k \in 1..Len(trips_with_coords) |-> trips_with_coords[k].trip]

\* the feature without the flag of the trip: fallback is the default, False
FeatureUnflagged(t, coords) ==
    [geometry |-> coords,
     properties |-> [from_time |-> t.from.time, to_time |-> t.to.time,
                     from_label |-> t.from.label, to_label |-> t.to.label,
                     distance_km |-> t.distance_km, fallback |-> FALSE]]

Feature(t, coords) ==
    [geometry |-> coords,
     properties |-> [from_time |-> t.from.time, to_time |-> t.to.time,
                     from_label |-> t.from.label, to_label |-> t.to.label,
                     distance_km |-> t.distance_km, fallback |-> t.fallback]]

Features(trips_with_coords) ==
    [k \in 1..Len(trips_with_coords) |->
        Feature(trips_with_coords[k].trip, trips_with_coords[k].coords)]

----------------------------------------------------------------------------
(* Inputs of the Trips stage *)

\* 27010 units are 1 km
CenterLats == {0, 27010}
T0 == FormatUtc(SecA * MsPerSec)
T1 == FormatUtc((SecA + 1) * MsPerSec)
T2 == FormatUtc((SecA + 2) * MsPerSec)

\* <<start, end>> of a stay
StayTimes == {<<T0, T1>>, <<T1, T2>>, <<T0, T2>>, <<T1, <<>> >>}

StayInputs ==
    {Stay(Center(lat, 0), t[1], t[2], "L") : lat \in CenterLats, t \in StayTimes}
    \cup {Stay(Center(lat, 0), T1, T2, "L") : lat \in {NoneVal, BadVal}}

SummaryDist == 5000000      \* a Summary Distance of 5 km

Routers ==
    {Router("unconfigured", FALSE, 0, "none"), Router("error", FALSE, 0, "none")}
    \cup {Router("resp", FALSE, 0, legs) : legs \in {"none", "line"}}
    \cup {Router("resp", TRUE, SummaryDist, legs) :
            legs \in {"none", "nolinestring", "badpoints", "line"}}
    \cup {Router("resp", TRUE, 0, "line")}

NoRouter == Router("", FALSE, 0, "")

----------------------------------------------------------------------------
(* Ingest: awsloc-ingest.py *)

TrackerBatch == 2      \* 10 in the source: positions per tracker update call

\* _to_ms(ts), reading the clock `clock` where the source calls time.time()
_to_ms(ts, clock) ==
    IF ts.k = "none" THEN clock
    ELSE IF ts.k = "num" THEN (IF ts.n > MsCut THEN ts.n ELSE ts.n * MsPerSec)
    ELSE IF ts.k = "str"
    THEN IF ParseIso(ts.s) # NoParse THEN ParseIso(ts.s) ELSE clock
    ELSE clock

\* _iso_utc_from_ms(ms) raises where utcfromtimestamp() has no such year
IsoUtcRaises(ms) == ms > MaxInstant

\* A request body: kind is "options" (an OPTIONS request), "invalid_json",
\* "nonobject" (JSON that is not an object), "single" (the fields of
\* locations[1] are those of the body itself) or "batch".
Body(kind, locs) == [kind |-> kind, deviceId |-> "d1", locations |-> locs]

IngRecord(lat, lon, ts_ms) == [lat |-> lat, lon |-> lon, ts_ms |-> ts_ms]

\* the records of the batch form: a location float() or _to_ms raises on
\* is left out
BatchRecords(body, clock) ==
    LET kept == SelectSeq(body.locations,
                    LAMBDA p : ~(FloatRaises(p.lat) \/ FloatRaises(p.lon)))
    IN  [i \in 1..Len(kept) |->
            IngRecord(kept[i].lat, kept[i].lon, _to_ms(kept[i].timestamp, clock))]

\* What the services do in a run: tracker is "off" (no TRACKER_NAME), "ok"
\* or "fail" (every update raises); geo is "off" (no PLACE_INDEX), "ok",
\* "empty" (no Results) or "fail" (the lookup raises); putFails is the set
\* of record indexes whose put_object raises.
IngEnv(tracker, geo, putFails) == [tracker |-> tracker, geo |-> geo, putFails |-> putFails]

\* reverse_geocode(lon, lat): the label, or "" for None
ing_reverse_geocode(env) == IF env.geo = "ok" THEN "addr" ELSE ""

\* raw/{device_id}/{ts_ms}-{rid}-{idx}.json, for the one request id
RawKey(device_id, ts_ms, idx) == <<device_id, ts_ms, idx>>

\* the object written; address is "" when the field is absent
RawObject(device_id, r, label) ==
    [deviceId |-> device_id, timestamp |-> r.ts_ms, latitude |-> r.lat, longitude |-> r.lon,
     address |-> label]

IngResponse(status, ok, saved, keys, error) ==
    [kind |-> "resp", status |-> status, ok |-> ok, saved |-> saved, keys |-> keys,
     error |-> error]

\* the handler ended with an exception it does not catch
IngRaised == [kind |-> "raise", status |-> 0, ok |-> FALSE, saved |-> NoneVal, keys |-> <<>>,
              error |-> ""]

IngNotRun == [kind |-> "", status |-> 0, ok |-> FALSE, saved |-> NoneVal, keys |-> <<>>,
              error |-> ""]

IngResult(resp, puts, store, trackerCalls) ==
    [resp |-> resp, puts |-> puts, store |-> store, trackerCalls |-> trackerCalls]

\* the loop "for idx, r in enumerate(records)": the keys of the puts made and
\* of the puts that succeeded (idx counts from 0)
RECURSIVE IngSaveLoop(_, _, _, _, _)
IngSaveLoop(device_id, records, idx, env, acc) ==
    IF idx >= Len(records) THEN acc
    ELSE LET r   == records[idx + 1]
             key == RawKey(device_id, r.ts_ms, idx)
             obj == RawObject(device_id, r, ing_reverse_geocode(env))
         IN  IngSaveLoop(device_id, records, idx + 1, env,
                 [puts  |-> Append(acc.puts, key),
                  saved |-> IF idx \in env.putFails THEN acc.saved ELSE Append(acc.saved, key),
                  store |-> IF idx \in env.putFails THEN acc.store
                            ELSE Put(acc.store, key, obj)])

\* the same with a tracker update that raises not caught: the handler ends
\* at the first update
IngStoreTrackerFatal(device_id, records, env, store) ==
    IF env.tracker # "off" /\ \E i \in 1..Len(records) : IsoUtcRaises(records[i].ts_ms)
    THEN IngResult(IngRaised, <<>>, store, 0)
    ELSE IF env.tracker = "fail" THEN IngResult(IngRaised, <<>>, store, 1)
    ELSE LET calls == IF env.tracker = "off" THEN 0
                      ELSE (Len(records) + TrackerBatch - 1) \div TrackerBatch
             out   == IngSaveLoop(device_id, records, 0, env,
                                  [puts |-> <<>>, saved |-> <<>>, store |-> store])
         IN  IngResult(IngResponse(200, TRUE, Len(out.saved), out.saved, ""),
                       out.puts, out.store, calls)

\* lambda_handler from the tracker update on, for a non-empty records
IngStore(device_id, records, env, store) ==
    IF env.tracker # "off" /\ \E i \in 1..Len(records) : IsoUtcRaises(records[i].ts_ms)
    THEN IngResult(IngRaised, <<>>, store, 0)
    ELSE LET calls == IF env.tracker = "off" THEN 0
                      ELSE (Len(records) + TrackerBatch - 1) \div TrackerBatch
             out   == IngSaveLoop(device_id, records, 0, env,
                                  [puts |-> <<>>, saved |-> <<>>, store |-> store])
         IN  IngResult(IngResponse(200, TRUE, Len(out.saved), out.saved, ""),
                       out.puts, out.store, calls)

\* lambda_handler(event, context)
ingest_handler(body, env, clock, store) ==
    IF body.kind = "options"
    THEN IngResult(IngResponse(200, TRUE, NoneVal, <<>>, ""), <<>>, store, 0)
    ELSE IF body.kind = "invalid_json"
    THEN IngResult(IngResponse(400, FALSE, NoneVal, <<>>, "invalid_json"), <<>>, store, 0)
    ELSE IF body.kind = "nonobject"
    THEN IngResult(IngRaised, <<>>, store, 0)
    ELSE IF body.kind = "single"
    THEN LET p == body.locations[1]
         IN  IF FloatRaises(p.lat) \/ FloatRaises(p.lon)
             THEN IngResult(IngResponse(400, FALSE, NoneVal, <<>>, "str(e)"), <<>>, store, 0)
             ELSE IngStore(body.deviceId,
                           <<IngRecord(p.lat, p.lon, _to_ms(p.timestamp, clock))>>, env, store)
    ELSE LET records == BatchRecords(body, clock)
         IN  IF records = <<>>
             THEN IngResult(IngResponse(400, FALSE, NoneVal, <<>>, "no_valid_locations"),
                            <<>>, store, 0)
             ELSE IngStore(body.deviceId, records, env, store)

----------------------------------------------------------------------------
(* Inputs of Ingest *)

HugeMs == MaxInstant + 1       \* a timestamp of a year utcfromtimestamp rejects

IngLocs ==
    {Loc(lat, 0, TsNum(SecA)) : lat \in {0, 3, NoneVal, BadVal}}
    \cup {Loc(0, 0, ts) : ts \in {TsNone, TsOther, TsStr(<<"x">>), TsNum(HugeMs),
                                  TsStr(<<"5", "T", "1", "Z">>)}}

Bodies ==
    {Body(k, <<>>) : k \in {"options", "invalid_json", "nonobject"}}
    \cup {Body("single", <<p>>) : p \in IngLocs}
    \cup UNION {{Body("batch", locs) : locs \in [1..n -> IngLocs]} : n \in 0..MaxLocs}

IngEnvs ==
    {IngEnv(t, g, pf) : t \in {"off", "ok", "fail"}, g \in {"off", "ok", "empty", "fail"},
                        pf \in SUBSET (0..(MaxLocs - 1))}

NoBody == Body("", <<>>)

NoIngEnv == IngEnv("", "", {})

----------------------------------------------------------------------------
(* The object store of the pipeline, and the handler of each stage *)

StayRadiusM == 200     \* STAY_RADIUS_M
StayMinSec == 2        \* STAY_MIN_SEC, 300 in the source
VisitRadiusM == 120    \* VISIT_RADIUS_M
VisitMinSec == 1       \* VISIT_MIN_SEC, 30 in the source
EnrichRetries == 5     \* retries of read_json in awsloc-enrich.py

\* A key is <<prefix, name>>: the prefix is <<"raw">> for raw/{device}/ and
\* the day D for processed/{device}/date=D/ (one device).
Key(prefix, name) == <<prefix, name>>

RawPrefix == <<"raw">>

\* key.startswith("processed/")
IsProcessed(key) == key[1] # RawPrefix

\* An object: kind is "raw" (v holds the payload), "jsonl" (v holds the
\* lines), "list" (a JSON array, v its elements), "notlist" (another JSON
\* value), "bad" (not JSON), "geojson" (a FeatureCollection, v its
\* features) or "text".
Obj(kind, v) == [kind |-> kind, v |-> v]

EmptyList == Obj("list", <<>>)

EmptyFeatureCollection == Obj("geojson", <<>>)

\* The effects of a handler so far: the store, the keys it has put, whether
\* it has ended with an exception, and (Enrich) the get_object calls and the
\* directory listings made.
HOut(store, writes, raised, gets, dumps) ==
    [store |-> store, writes |-> writes, raised |-> raised, gets |-> gets, dumps |-> dumps]

\* put_object / write_json
PutObj(out, key, obj) ==
    [out EXCEPT !.store = Put(out.store, key, obj), !.writes = out.writes \cup {key}]

Raise(out) == [out EXCEPT !.raised = TRUE]

\* ---- Merge: lambda_handler of awsloc-processor.py

\* the points.jsonl objects of the store, by day
FilesView(store) ==
    [d \in {k[1] : k \in {kk \in DOMAIN store : kk[2] = "points.jsonl"}} |->
        store[Key(d, "points.jsonl")].v]

\* the put_object calls of the loop over by_day
RECURSIVE PutDays(_, _, _)
PutDays(out, days, st) ==
    IF days = <<>> THEN out
    ELSE LET day == Head(days)
             o1  == PutObj(out, Key(day, "points.jsonl"), Obj("jsonl", st.files[day]))
             o2  == PutObj(o1, Key(day, "diary_stub.txt"), Obj("text", <<[n |-> st.stubs[day]]>>))
         IN  PutDays(o2, Tail(days), st)

\* process_raw_object(bucket, key) on the store: read_raw_object raises for
\* a missing object and for one that is not JSON
merge_record(out, key, clock) ==
    IF key[1] # RawPrefix THEN out
    ELSE IF key \notin DOMAIN out.store THEN Raise(out)
    ELSE IF out.store[key].kind # "raw" THEN Raise(out)
    ELSE LET payload == out.store[key].v[1]
             points  == normalize_payload(payload, clock)
             st      == process_raw_object(
                            [files |-> FilesView(out.store), invoked |-> {}, stubs |-> EmptyStore],
                            [isRaw |-> TRUE, payload |-> payload], clock, FALSE)
         IN  PutDays(out, DaysOf(points, {}), st)

\* for rec in event["Records"]: try process_raw_object except continue
RECURSIVE MergeHandler(_, _, _)
MergeHandler(out, records, clock) ==
    IF records = <<>> THEN out
    ELSE LET o == merge_record(out, Head(records), clock)
         IN  MergeHandler([o EXCEPT !.raised = FALSE], Tail(records), clock)

\* ---- Segment: lambda_handler of awsloc-stay.py

\* read_points_jsonl raises for a missing object, for a line that is not a
\* JSON object and for a lat or lon float() rejects
PointsReadRaises(store, key) ==
    \/ key \notin DOMAIN store
    \/ store[key].kind # "jsonl"
    \/ \E i \in 1..Len(store[key].v) :
           FloatRaises(store[key].v[i].lat) \/ FloatRaises(store[key].v[i].lon)

\* read_points_jsonl: the lines that have a ts, sorted by the ts string
read_points_jsonl(store, key) ==
    LET withTs == SelectSeq(store[key].v, LAMBDA r : r.ts # <<>>)
    IN  SortByTs([i \in 1..Len(withTs) |->
                     SegPoint(withTs[i].lat, withTs[i].lon, withTs[i].ts)])

\* iso2dt raises in detect_segments: every point is the end of a window
DetectRaises(points) == \E i \in 1..Len(points) : iso2dt(points[i].ts) = NoParse

\* json.dumps of a segment: the center is the mean, in model units
StayJson(seg) ==
    [center |-> Center(seg.center.latSum \div seg.center.n, seg.center.lonSum \div seg.center.n),
     start |-> seg.start, end |-> seg.end]

SegmentsJson(points, radius_m, min_dur_sec) ==
    LET segs == detect_segments(points, radius_m, min_dur_sec)
    IN  Obj("list", [k \in 1..Len(segs) |-> StayJson(segs[k])])

\* the body of the loop of lambda_handler for one record
segment_record(out, key) ==
    IF ~(key[2] = "points.jsonl" /\ IsProcessed(key)) THEN out
    ELSE IF PointsReadRaises(out.store, key) THEN Raise(out)
    ELSE LET points == read_points_jsonl(out.store, key)
         IN  IF DetectRaises(points) THEN Raise(out)
             ELSE PutObj(PutObj(out, Key(key[1], "stays.json"),
                                SegmentsJson(points, StayRadiusM, StayMinSec)),
                         Key(key[1], "visits.json"),
                         SegmentsJson(points, VisitRadiusM, VisitMinSec))

\* for rec in event["Records"]: no exception is caught
RECURSIVE SegmentHandler(_, _)
SegmentHandler(out, records) ==
    IF records = <<>> THEN out
    ELSE LET o == segment_record(out, Head(records))
         IN  IF o.raised THEN o ELSE SegmentHandler(o, Tail(records))

\* ---- Enrich: lambda_handler of awsloc-enrich.py

\* How the services behave in a run of Enrich: geo is "ok" or "none"
\* (reverse_geocode returns None: no result, or every retry raised); miss is
\* the set of calls to the store, counted per record from the head_object
\* (call 1) through the get_object calls (2, 3, ..), that answer NoSuchKey
\* although the object is there.
EnrichEnv(geo, miss) == [geo |-> geo, miss |-> miss]

s3_key_exists(store, key, miss) == key \in DOMAIN store /\ 1 \notin miss

\* read_json: the attempt (1..retries) whose get_object finds the object, or
\* 0 when none does
ReadHit(store, key, miss) ==
    LET hits == {i \in 1..EnrichRetries : key \in DOMAIN store /\ (i + 1) \notin miss}
    IN  IF hits = {} THEN 0 ELSE CHOOSE i \in hits : \A j \in hits : i <= j

GeoRetries == 3        \* retries of reverse_geocode in awsloc-enrich.py

\* what reverse_geocode gives back: the label (None is "") and the number of
\* calls of search_place_index_for_position it made
GeoInfo(label, calls) == [label |-> label, calls |-> calls]

\* reverse_geocode with a single attempt, as with retries = 1
reverse_geocode_once(lat, lon, outcomes) ==
    IF FloatRaises(lat) \/ FloatRaises(lon) THEN GeoInfo("", 0)
    ELSE GeoInfo(IF outcomes[1] = "ok" THEN "L" ELSE "", 1)

\* reverse_geocode(lat, lon): outcomes[i] says what the i-th call does: "ok"
\* (a result with a label), "empty" (no result) or "fail" (it raises).
\* float() of the position is inside the try: a value it rejects makes
\* every attempt fail before the call.
reverse_geocode(lat, lon, outcomes) ==
    IF FloatRaises(lat) \/ FloatRaises(lon) THEN GeoInfo("", 0)
    ELSE LET returned == {i \in 1..GeoRetries : outcomes[i] # "fail"}
         IN  IF returned = {} THEN GeoInfo("", GeoRetries)
             ELSE LET i == CHOOSE x \in returned : \A y \in returned : x <= y
                  IN  GeoInfo(IF outcomes[i] = "ok" THEN "L" ELSE "", i)

\* an absent, null or empty object where a center is looked for
NoCenter == Center(NoneVal, NoneVal)

\* seg.get(name)
GetCenter(seg, name) == IF name \in DOMAIN seg THEN seg[name] ELSE NoCenter

\* st.get("center") or {}
StayCenter(st) == GetCenter(st, "center")

\* v.get("center") or v.get("point") or v.get("location") or v
VisitCenter(v) ==
    IF GetCenter(v, "center") # NoCenter THEN v.center
    ELSE IF GetCenter(v, "point") # NoCenter THEN v.point
    ELSE IF GetCenter(v, "location") # NoCenter THEN v.location
    ELSE Center(IF "lat" \in DOMAIN v THEN v.lat ELSE NoneVal,
                IF "lon" \in DOMAIN v THEN v.lon ELSE NoneVal)

\* the body of the loop that rebuilds the segment from its center alone
EnrichedRebuilt(seg, c, outcomes) ==
    IF c.lat = NoneVal \/ c.lon = NoneVal
    THEN [seg |-> [center |-> c, label |-> ""], calls |-> 0]
    ELSE LET info == reverse_geocode(c.lat, c.lon, outcomes)
         IN  [seg |-> [center |-> c, label |-> info.label], calls |-> info.calls]

\* the body of the loop of enrich_stays and enrich_visits: the segment with
\* its label set (placeInfo is not read by any stage and is left out), and
\* the calls made
Enriched(seg, c, outcomes) ==
    IF c.lat = NoneVal \/ c.lon = NoneVal
    THEN [seg |-> Put(seg, "label", ""), calls |-> 0]
    ELSE LET info == reverse_geocode(c.lat, c.lon, outcomes)
         IN  [seg |-> Put(seg, "label", info.label), calls |-> info.calls]

\* enrich_stays and enrich_visits with the outcomes of the calls given per
\* segment
enrich_stays_calls(stays, plan) ==
    [i \in 1..Len(stays) |-> Enriched(stays[i], StayCenter(stays[i]), plan[i])]

enrich_visits_calls(visits, plan) ==
    [i \in 1..Len(visits) |-> Enriched(visits[i], VisitCenter(visits[i]), plan[i])]

\* the outcomes of the calls when the geocoder answers every call (geo =
\* "ok") or has no result ("none")
GeoPlan(geo) == [i \in 1..GeoRetries |-> IF geo = "ok" THEN "ok" ELSE "empty"]

\* enrich_stays: label (None is "") from the reverse geocoder
enrich_stays(stays, geo) ==
    LET r == enrich_stays_calls(stays, [i \in 1..Len(stays) |-> GeoPlan(geo)])
    IN  [i \in 1..Len(stays) |-> r[i].seg]

\* enrich_visits
enrich_visits(visits, geo) ==
    LET r == enrich_visits_calls(visits, [i \in 1..Len(visits) |-> GeoPlan(geo)])
    IN  [i \in 1..Len(visits) |-> r[i].seg]

\* the branch with the enriched array written back to the key it was read
\* from
EnrichBranchInPlace(out, key, env, outName, isStays) ==
    IF ~s3_key_exists(out.store, key, env.miss)
    THEN [out EXCEPT !.dumps = out.dumps + 1]
    ELSE LET hit == ReadHit(out.store, key, env.miss)
         IN  IF hit = 0
             THEN Raise([out EXCEPT !.gets = out.gets + EnrichRetries,
                                    !.dumps = out.dumps + 1])
             ELSE LET o    == [out EXCEPT !.gets = out.gets + hit]
                      data == out.store[key]
                  IN  IF data.kind = "bad" THEN Raise(o)
                      ELSE IF data.kind # "list" THEN o
                      ELSE PutObj(o, key,
                                  Obj("list", IF isStays THEN enrich_stays(data.v, env.geo)
                                              ELSE enrich_visits(data.v, env.geo)))

\* the branch that writes an empty array for an input that is not an
\* array, as Trips does
EnrichBranchEmptyOnDrift(out, key, env, outName, isStays) ==
    IF ~s3_key_exists(out.store, key, env.miss)
    THEN [out EXCEPT !.dumps = out.dumps + 1]
    ELSE LET hit == ReadHit(out.store, key, env.miss)
         IN  IF hit = 0
             THEN Raise([out EXCEPT !.gets = out.gets + EnrichRetries,
                                    !.dumps = out.dumps + 1])
             ELSE LET o    == [out EXCEPT !.gets = out.gets + hit]
                      data == out.store[key]
                  IN  IF data.kind = "bad" THEN Raise(o)
                      ELSE IF data.kind # "list" THEN PutObj(o, Key(key[1], outName), EmptyList)
                      ELSE PutObj(o, Key(key[1], outName),
                                  Obj("list", IF isStays THEN enrich_stays(data.v, env.geo)
                                              ELSE enrich_visits(data.v, env.geo)))

\* one branch of the loop of lambda_handler, for a key that ends with
\* stays.json (isStays) or visits.json: the output goes to `outName`
EnrichBranch(out, key, env, outName, isStays) ==
    IF ~s3_key_exists(out.store, key, env.miss)
    THEN [out EXCEPT !.dumps = out.dumps + 1]
    ELSE LET hit == ReadHit(out.store, key, env.miss)
         IN  IF hit = 0
             THEN Raise([out EXCEPT !.gets = out.gets + EnrichRetries,
                                    !.dumps = out.dumps + 1])
             ELSE LET o    == [out EXCEPT !.gets = out.gets + hit]
                      data == out.store[key]
                  IN  IF data.kind = "bad" THEN Raise(o)
                      ELSE IF data.kind # "list" THEN o
                      ELSE PutObj(o, Key(key[1], outName),
                                  Obj("list", IF isStays THEN enrich_stays(data.v, env.geo)
                                              ELSE enrich_visits(data.v, env.geo)))

enrich_record(out, key, env) ==
    IF ~IsProcessed(key) THEN out
    ELSE IF key[2] = "stays.json" THEN EnrichBranch(out, key, env, "stays_enriched.json", TRUE)
    ELSE IF key[2] = "visits.json" THEN EnrichBranch(out, key, env, "visits_enriched.json", FALSE)
    ELSE out

\* for rec in event["Records"]: no exception is caught
RECURSIVE EnrichHandler(_, _, _)
EnrichHandler(out, records, env) ==
    IF records = <<>> THEN out
    ELSE LET o == enrich_record(out, Head(records), env)
         IN  IF o.raised THEN o ELSE EnrichHandler(o, Tail(records), env)

\* ---- Trips: lambda_handler and _process_one of awsloc-trip.py

\* _process_one that returns without writing when the input is not an
\* array, as Enrich does
trips_record_skip_invalid(out, key, router) ==
    IF ~(key[2] = "stays_enriched.json" /\ IsProcessed(key)) THEN out
    ELSE IF key \notin DOMAIN out.store THEN Raise(out)
    ELSE IF out.store[key].kind = "bad" THEN Raise(out)
    ELSE LET stays == out.store[key]
         IN  IF stays.kind # "list" THEN out
             ELSE LET trips_with_coords == make_trips_from_stays(stays.v, router)
                  IN  PutObj(PutObj(out, Key(key[1], "trips.json"),
                                    Obj("list", TripsOnly(trips_with_coords))),
                             Key(key[1], "geojson.json"),
                             Obj("geojson", Features(trips_with_coords)))

\* _process_one(bucket, key): read_json raises for a missing object and for
\* one that is not JSON
trips_record(out, key, router) ==
    IF ~(key[2] = "stays_enriched.json" /\ IsProcessed(key)) THEN out
    ELSE IF key \notin DOMAIN out.store THEN Raise(out)
    ELSE IF out.store[key].kind = "bad" THEN Raise(out)
    ELSE LET stays == out.store[key]
         IN  IF stays.kind # "list" \/ stays.v = <<>>
             THEN PutObj(PutObj(out, Key(key[1], "trips.json"), EmptyList),
                         Key(key[1], "geojson.json"), EmptyFeatureCollection)
             ELSE LET trips_with_coords == make_trips_from_stays(stays.v, router)
                  IN  PutObj(PutObj(out, Key(key[1], "trips.json"),
                                    Obj("list", TripsOnly(trips_with_coords))),
                             Key(key[1], "geojson.json"),
                             Obj("geojson", Features(trips_with_coords)))

\* for rec in records: try _process_one except log
RECURSIVE TripsHandler(_, _, _)
TripsHandler(out, records, router) ==
    IF records = <<>> THEN out
    ELSE LET o == trips_record(out, Head(records), router)
         IN  TripsHandler([o EXCEPT !.raised = FALSE], Tail(records), router)

----------------------------------------------------------------------------
(* Inputs of the pipeline *)

D5 == day_from_iso(FormatUtc(SecA * MsPerSec))

D6 == day_from_iso(FormatUtc(SecB * MsPerSec))

Days == {D5, D6}

\* two points of day 5 one second apart, and one point of day 6
RawA == Obj("raw", <<Payload("d1", TRUE, <<Loc(0, 0, TsNum(SecA)), Loc(0, 0, TsNum(SecA + 1))>>)>>)

RawB == Obj("raw", <<Payload("d1", FALSE, <<Loc(30000, 0, TsNum(SecB))>>)>>)

PtsEmpty == Obj("jsonl", <<>>)

PtsOne == Obj("jsonl", <<Point("d1", 0, 0, FormatUtc(SecA * MsPerSec))>>)

\* two points at one place two seconds apart, then two 1.1 km away
PtsStay ==
    Obj("jsonl", <<Point("d1", 0, 0, FormatUtc(SecA * MsPerSec)),
                   Point("d1", 0, 0, FormatUtc(SecB * MsPerSec)),
                   Point("d1", 30000, 0, FormatUtc((SecB + 1) * MsPerSec)),
                   Point("d1", 30000, 0, FormatUtc((SecB + 3) * MsPerSec))>>)

\* a line whose lat is not a number
PtsBad == Obj("jsonl", <<Point("d1", BadVal, 0, FormatUtc(SecA * MsPerSec))>>)

PointsObjs == {PtsEmpty, PtsOne, PtsStay, PtsBad}

\* stays_enriched.json with one stay, and with two
OneStay == Obj("list", <<Stay(Center(0, 0), T0, T1, "L")>>)

TwoStays == Obj("list", <<Stay(Center(0, 0), T0, T1, "L"), Stay(Center(27010, 0), T1, T2, "")>>)

OneObject(key, obj) == [k \in {key} |-> obj]

\* the bucket before the handlers run
PipeStores ==
    {EmptyStore}
    \cup {[k \in {Key(RawPrefix, "a.json"), Key(RawPrefix, "b.json")} |->
              IF k[2] = "a.json" THEN RawA ELSE RawB]}
    \cup {OneObject(Key(d, "points.jsonl"), o) : d \in Days, o \in PointsObjs}
    \cup {[k \in {Key(D5, "points.jsonl"), Key(D6, "points.jsonl")} |->
              IF k[1] = D5 THEN o5 ELSE o6] : o5 \in PointsObjs, o6 \in PointsObjs}
    \cup {OneObject(Key(d, n), o) : d \in Days, n \in {"stays.json", "stays_enriched.json"},
                                    o \in {Obj("bad", <<>>), Obj("notlist", <<>>)}}
    \cup {OneObject(Key(D5, "stays_enriched.json"), o) : o \in {EmptyList, OneStay, TwoStays}}
    \cup {[k \in {Key(D5, "stays.json"), Key(D6, "points.jsonl")} |->
              IF k[1] = D5 THEN Obj("bad", <<>>) ELSE PtsStay]}

\* the keys the events of a stage name
StageKeys(stage) ==
    IF stage = "merge" THEN {Key(RawPrefix, "a.json"), Key(RawPrefix, "b.json")}
    ELSE IF stage = "segment" THEN {Key(d, "points.jsonl") : d \in Days}
    ELSE IF stage = "enrich" THEN {Key(d, "stays.json") : d \in Days} \cup {Key(D5, "visits.json")}
    ELSE {Key(d, "stays_enriched.json") : d \in Days}

\* event["Records"]: up to MaxRecs different keys
StageEvents(stage) ==
    UNION {{f \in [1..n -> StageKeys(stage)] : \A i, j \in 1..n : i # j => f[i] # f[j]} :
              n \in 1..MaxRecs}

PipeRouters == {Router("unconfigured", FALSE, 0, "none"), Router("resp", TRUE, SummaryDist, "line")}

PipeEvent(stage, records, geo, miss, router) ==
    [stage |-> stage, records |-> records, geo |-> geo, miss |-> miss, router |-> router]

NoPipeEvent == PipeEvent("", <<>>, "", {}, NoRouter)

NoOut == [writes |-> {}, raised |-> FALSE, gets |-> 0, dumps |-> 0]

\* the object is invisible to the first k calls, or visible to the
\* head_object and invisible to the get_object calls up to the k-th call
EnrichMisses ==
    {1..k : k \in 0..(EnrichRetries + 1)} \cup {2..k : k \in 2..(EnrichRetries + 1)}

----------------------------------------------------------------------------
(* The Merge transaction, call by call: lambda_handler of awsloc-processor.py *)

\* How the services behave in a transaction: stays_fn says whether
\* STAYS_FUNCTION is set; fail is "none", or the call that raises for the
\* points.jsonl of `day`: "get" (get_object, with an error other than
\* NoSuchKey), "put" (put_object) or "invoke" (LAMBDA.invoke).
TxEnv(stays_fn, fail, day) == [stays_fn |-> stays_fn, fail |-> fail, day |-> day]

\* a call of the transaction: op is "put", "put_failed", "invoke",
\* "invoke_failed" or "stub"; rec is the index of the record
Call(op, rec, day) == [op |-> op, rec |-> rec, day |-> day]

\* The transaction so far: the points.jsonl and stub objects, the calls
\* made, whether an exception is propagating, the total of the record,
\* the count of the handler and whether it returned {"ok": True, ..}.
TxOut(f, st, log, raised, total, appended, ok) ==
    [files |-> f, stubs |-> st, log |-> log, raised |-> raised, total |-> total,
     appended |-> appended, ok |-> ok]

\* invoke_lambda_async that lets the exception of LAMBDA.invoke out
invoke_lambda_raising(out, rec, day, env) ==
    IF ~env.stays_fn THEN out
    ELSE IF env.fail = "invoke" /\ env.day = day
    THEN [out EXCEPT !.log = Append(@, Call("invoke_failed", rec, day)), !.raised = TRUE]
    ELSE [out EXCEPT !.log = Append(@, Call("invoke", rec, day))]

\* invoke_lambda_async: nothing without a function name; the exception of
\* LAMBDA.invoke is caught
invoke_lambda_async(out, rec, day, env) ==
    IF ~env.stays_fn THEN out
    ELSE IF env.fail = "invoke" /\ env.day = day
    THEN [out EXCEPT !.log = Append(@, Call("invoke_failed", rec, day))]
    ELSE [out EXCEPT !.log = Append(@, Call("invoke", rec, day))]

\* the loop of process_raw_object over by_day.items(): write_merged_jsonl
\* (get_object, put_object), invoke_lambda_async, the put of the stub
RECURSIVE TxDays(_, _, _, _, _, _)
TxDays(out, rec, days, points, clock, env) ==
    IF days = <<>> THEN out
    ELSE LET day    == Head(days)
             recs   == SelectSeq(points, LAMBDA p : day_from_iso(p.ts) = day)
             merged == write_merged_jsonl(out.files, day, recs, clock,
                                          env.fail = "get" /\ env.day = day)
         IN  IF env.fail = "put" /\ env.day = day
             THEN [out EXCEPT !.log = Append(@, Call("put_failed", rec, day)),
                              !.raised = TRUE]
             ELSE LET o1 == [out EXCEPT !.files = Put(@, day, merged),
                                        !.log = Append(@, Call("put", rec, day))]
                      o2 == invoke_lambda_async(o1, rec, day, env)
                  IN  IF o2.raised THEN o2
                      ELSE TxDays([o2 EXCEPT !.stubs = Put(@, day, Len(recs)),
                                             !.log = Append(@, Call("stub", rec, day)),
                                             !.total = @ + Len(recs)],
                                  rec, Tail(days), points, clock, env)

\* process_raw_object for the record rec
TxRecord(out, rec, ev, clock, env) ==
    IF ~ev.isRaw THEN out
    ELSE LET points == normalize_payload(ev.payload, clock)
         IN  IF points = <<>> THEN out
             ELSE TxDays(out, rec, DaysOf(points, {}), points, clock, env)

\* lambda_handler: for rec in Records: try count += process_raw_object(..)
\* except continue; return {"ok": True, "appended": count}
RECURSIVE TxHandler(_, _, _, _, _)
TxHandler(out, records, rec, clock, env) ==
    IF rec > Len(records) THEN [out EXCEPT !.ok = TRUE]
    ELSE LET o == TxRecord([out EXCEPT !.total = 0], rec, records[rec], clock, env)
         IN  TxHandler([o EXCEPT !.raised = FALSE,
                                 !.appended = IF o.raised THEN @ ELSE @ + o.total],
                       records, rec + 1, clock, env)

\* raw objects: a point of day 5, a point of day 6, and a batch with a
\* point of each day
TxRaws ==
    {[isRaw |-> TRUE, payload |-> p] :
        p \in {Payload("d1", FALSE, <<Loc(0, 0, TsNum(SecA))>>),
               Payload("d1", FALSE, <<Loc(3, 0, TsNum(SecB))>>),
               Payload("d1", TRUE, <<Loc(3, 0, TsNum(MsAHalf)), Loc(0, 0, TsNum(SecB))>>)}}

\* events of one or two records
TxEvents == {<<a>> : a \in TxRaws} \cup {<<a, b>> : a, b \in TxRaws}

TxEnvs ==
    {TxEnv(TRUE, "none", D5), TxEnv(FALSE, "none", D5)}
    \cup {TxEnv(TRUE, f, d) : f \in {"get", "put", "invoke"}, d \in Days}

NoTxIn == [records |-> <<>>, env |-> TxEnv(FALSE, "none", D5)]

NoTx == TxOut(EmptyStore, EmptyStore, <<>>, FALSE, 0, 0, FALSE)

----------------------------------------------------------------------------
(* Inputs of the chain Merge then Segment *)

\* raw objects of one device and day 5, of one point each: two points at
\* one place one second apart, and a point 1.1 km away between them
ChainRaws ==
    {Obj("raw", <<Payload("d1", FALSE, <<Loc(0, 0, TsNum(SecA))>>)>>),
     Obj("raw", <<Payload("d1", FALSE, <<Loc(0, 0, TsNum(SecA + 1))>>)>>),
     Obj("raw", <<Payload("d1", FALSE, <<Loc(30000, 0, TsNum(MsAHalf))>>)>>)}

ChainKey == Key(D5, "points.jsonl")

----------------------------------------------------------------------------
(* Inputs of enrich_stays and enrich_visits *)

GeoOutcomes == {"ok", "empty", "fail"}

GeoPlans == [1..GeoRetries -> GeoOutcomes]

AllOk == [i \in 1..GeoRetries |-> "ok"]

AllFail == [i \in 1..GeoRetries |-> "fail"]

EnInput(seg, plan) == [seg |-> seg, plan |-> plan]

\* a segment as Segment writes it, with every behaviour of the geocoder;
\* one that has a label already; segments whose center lacks lat, is
\* absent, or holds a value float() rejects; segments without center that
\* have a point, a location, or lat and lon of their own
EnInputs ==
    {EnInput([center |-> Center(0, 0), start |-> T0, end |-> T1], plan) : plan \in GeoPlans}
    \cup {EnInput([center |-> Center(3000, 0), start |-> T1, end |-> T2, label |-> "old"], plan) :
             plan \in {AllOk, AllFail}}
    \cup {EnInput(seg, AllOk) :
             seg \in {[center |-> Center(NoneVal, 0), start |-> T0, end |-> T1],
                      [start |-> T0, end |-> T1],
                      [center |-> Center(BadVal, 0), start |-> T0, end |-> T1],
                      [point |-> Center(0, 0), start |-> T0, end |-> T1],
                      [location |-> Center(0, 0), start |-> T0, end |-> T1],
                      [lat |-> 0, lon |-> 0, start |-> T0, end |-> T1]}}

----------------------------------------------------------------------------
(* State machines *)

\* the empty store, before any stage has run
Init ==
    /\ files = EmptyStore
    /\ stubs = EmptyStore
    /\ invoked = {}
    /\ now = NowStart
    /\ lastRaw = NoEvent
    /\ prevFiles = EmptyStore
    /\ lastNow = NowStart
    /\ nMerge = 0
    /\ segPoints = <<>>
    /\ segRadius = 0
    /\ segMinDur = 0
    /\ segWins = <<>>
    /\ segOut = <<>>
    /\ segRan = FALSE
    /\ tripStays = <<>>
    /\ tripRouter = NoRouter
    /\ tripsJson = <<>>
    /\ geoJson = <<>>
    /\ tripRan = FALSE
    /\ ingBody = NoBody
    /\ ingEnv = NoIngEnv
    /\ ingResp = IngNotRun
    /\ ingPuts = <<>>
    /\ ingCalls = 0
    /\ rawStore = EmptyStore
    /\ ingRan = FALSE
    /\ bucket = EmptyStore
    /\ pipeEv = NoPipeEvent
    /\ pipeOut = NoOut
    /\ nRuns = 0
    /\ racePc = [i \in Invocations |-> "idle"]
    /\ raceRaw = [i \in Invocations |-> NoEvent]
    /\ raceSnap = [i \in Invocations |-> EmptyStore]
    /\ raceOverlap = FALSE
    /\ raceMerged = {}
    /\ txIn = NoTxIn
    /\ tx = NoTx
    /\ enIn = <<>>
    /\ enOut = <<>>
    /\ enKind = ""
    /\ chPc = <<>>
    /\ chSnap = <<>>

\* the same, with the arguments of detect_segments chosen
InitSeg ==
    /\ files = EmptyStore
    /\ stubs = EmptyStore
    /\ invoked = {}
    /\ now = NowStart
    /\ lastRaw = NoEvent
    /\ prevFiles = EmptyStore
    /\ lastNow = NowStart
    /\ nMerge = 0
    /\ segPoints = <<>>
    /\ segRadius \in Radii
    /\ segMinDur \in MinDurs
    /\ segWins = <<>>
    /\ segOut = <<>>
    /\ segRan = FALSE
    /\ tripStays = <<>>
    /\ tripRouter = NoRouter
    /\ tripsJson = <<>>
    /\ geoJson = <<>>
    /\ tripRan = FALSE
    /\ ingBody = NoBody
    /\ ingEnv = NoIngEnv
    /\ ingResp = IngNotRun
    /\ ingPuts = <<>>
    /\ ingCalls = 0
    /\ rawStore = EmptyStore
    /\ ingRan = FALSE
    /\ bucket = EmptyStore
    /\ pipeEv = NoPipeEvent
    /\ pipeOut = NoOut
    /\ nRuns = 0
    /\ racePc = [i \in Invocations |-> "idle"]
    /\ raceRaw = [i \in Invocations |-> NoEvent]
    /\ raceSnap = [i \in Invocations |-> EmptyStore]
    /\ raceOverlap = FALSE
    /\ raceMerged = {}
    /\ txIn = NoTxIn
    /\ tx = NoTx
    /\ enIn = <<>>
    /\ enOut = <<>>
    /\ enKind = ""
    /\ chPc = <<>>
    /\ chSnap = <<>>

\* the same, with objects already in the bucket
InitPipe ==
    /\ files = EmptyStore
    /\ stubs = EmptyStore
    /\ invoked = {}
    /\ now = NowStart
    /\ lastRaw = NoEvent
    /\ prevFiles = EmptyStore
    /\ lastNow = NowStart
    /\ nMerge = 0
    /\ segPoints = <<>>
    /\ segRadius = 0
    /\ segMinDur = 0
    /\ segWins = <<>>
    /\ segOut = <<>>
    /\ segRan = FALSE
    /\ tripStays = <<>>
    /\ tripRouter = NoRouter
    /\ tripsJson = <<>>
    /\ geoJson = <<>>
    /\ tripRan = FALSE
    /\ ingBody = NoBody
    /\ ingEnv = NoIngEnv
    /\ ingResp = IngNotRun
    /\ ingPuts = <<>>
    /\ ingCalls = 0
    /\ rawStore = EmptyStore
    /\ ingRan = FALSE
    /\ bucket \in PipeStores
    /\ pipeEv = NoPipeEvent
    /\ pipeOut = NoOut
    /\ nRuns = 0
    /\ racePc = [i \in Invocations |-> "idle"]
    /\ raceRaw = [i \in Invocations |-> NoEvent]
    /\ raceSnap = [i \in Invocations |-> EmptyStore]
    /\ raceOverlap = FALSE
    /\ raceMerged = {}
    /\ txIn = NoTxIn
    /\ tx = NoTx
    /\ enIn = <<>>
    /\ enOut = <<>>
    /\ enKind = ""
    /\ chPc = <<>>
    /\ chSnap = <<>>

Spec == Init /\ [][MergeNext]_vars

\* one more line of points.jsonl, not earlier than the one before it
SegAddPoint(lat, gap) ==
    /\ ~segRan
    /\ Len(segPoints) < MaxPts
    /\ LET t == IF segPoints = <<>> THEN FirstInstant + gap
                ELSE iso2dt(segPoints[Len(segPoints)].ts) + gap
       IN  /\ t <= MaxInstant
           /\ segPoints' = Append(segPoints, SegPoint(lat, 0, FormatUtc(t)))
    /\ UNCHANGED <<segRadius, segMinDur, segWins, segOut, segRan>>
    /\ UNCHANGED notSegVars

\* detect_segments(points, radius_m, min_dur_sec)
SegDetect ==
    /\ ~segRan
    /\ segRan' = TRUE
    /\ segWins' = detect_windows(segPoints, segRadius, segMinDur)
    /\ segOut' = detect_segments(segPoints, segRadius, segMinDur)
    /\ UNCHANGED <<segPoints, segRadius, segMinDur>>
    /\ UNCHANGED notSegVars

SegNext ==
    \/ \E lat \in SegLats, gap \in Gaps : SegAddPoint(lat, gap)
    \/ SegDetect

SpecSeg == InitSeg /\ [][SegNext]_vars

\* one more stay in stays_enriched.json
TripAddStay(stay) ==
    /\ ~tripRan
    /\ Len(tripStays) < MaxStays
    /\ tripStays' = Append(tripStays, stay)
    /\ UNCHANGED <<tripRouter, tripsJson, geoJson, tripRan>>
    /\ UNCHANGED notTripVars

\* _process_one on a stays_enriched.json key of RAW_BUCKET: an empty array
\* gives the two empty outputs, any other array make_trips_from_stays and
\* save_outputs
TripsRun(router) ==
    /\ ~tripRan
    /\ tripRan' = TRUE
    /\ tripRouter' = router
    /\ LET trips_with_coords ==
               IF tripStays = <<>> THEN <<>>
               ELSE make_trips_from_stays(tripStays, router)
       IN  /\ tripsJson' = TripsOnly(trips_with_coords)
           /\ geoJson' = Features(trips_with_coords)
    /\ UNCHANGED tripStays
    /\ UNCHANGED notTripVars

TripNext ==
    \/ \E stay \in StayInputs : TripAddStay(stay)
    \/ \E router \in Routers : TripsRun(router)

SpecTrips == Init /\ [][TripNext]_vars

\* a request arrives
IngReceive(body) ==
    /\ ~ingRan
    /\ ingBody = NoBody
    /\ ingBody' = body
    /\ UNCHANGED <<ingEnv, ingResp, ingPuts, ingCalls, rawStore, ingRan>>
    /\ UNCHANGED notIngVars

\* lambda_handler of Ingest on the request
IngestRun(env) ==
    /\ ~ingRan
    /\ ingBody # NoBody
    /\ ingRan' = TRUE
    /\ ingEnv' = env
    /\ LET out == ingest_handler(ingBody, env, now, rawStore)
       IN  /\ ingResp' = out.resp
           /\ ingPuts' = out.puts
           /\ ingCalls' = out.trackerCalls
           /\ rawStore' = out.store
    /\ UNCHANGED ingBody
    /\ UNCHANGED notIngVars

IngNext ==
    \/ \E body \in Bodies : IngReceive(body)
    \/ \E env \in IngEnvs : IngestRun(env)

SpecIngest == Init /\ [][IngNext]_vars

\* what a handler invocation leaves in the state
PipeRan(ev, out) ==
    /\ nRuns < MaxRuns
    /\ nRuns' = nRuns + 1
    /\ pipeEv' = ev
    /\ bucket' = out.store
    /\ pipeOut' = [writes |-> out.writes, raised |-> out.raised, gets |-> out.gets,
                   dumps |-> out.dumps]
    /\ UNCHANGED notPipeVars

RunMerge(records) ==
    PipeRan(PipeEvent("merge", records, "", {}, NoRouter),
            MergeHandler(HOut(bucket, {}, FALSE, 0, 0), records, now))

RunSegment(records) ==
    PipeRan(PipeEvent("segment", records, "", {}, NoRouter),
            SegmentHandler(HOut(bucket, {}, FALSE, 0, 0), records))

RunEnrich(records, geo) ==
    PipeRan(PipeEvent("enrich", records, geo, {}, NoRouter),
            EnrichHandler(HOut(bucket, {}, FALSE, 0, 0), records, EnrichEnv(geo, {})))

RunTrips(records, router) ==
    PipeRan(PipeEvent("trips", records, "", {}, router),
            TripsHandler(HOut(bucket, {}, FALSE, 0, 0), records, router))

PipeNext ==
    \/ \E records \in StageEvents("merge") : RunMerge(records)
    \/ \E records \in StageEvents("segment") : RunSegment(records)
    \/ \E records \in StageEvents("enrich"), geo \in {"ok", "none"} : RunEnrich(records, geo)
    \/ \E records \in StageEvents("trips"), router \in PipeRouters : RunTrips(records, router)

SpecPipe == InitPipe /\ [][PipeNext]_vars

\* Enrich invoked for one key while the store answers NoSuchKey to the
\* calls in `miss`
RunEnrichMiss(key, miss) ==
    PipeRan(PipeEvent("enrich", <<key>>, "ok", miss, NoRouter),
            EnrichHandler(HOut(bucket, {}, FALSE, 0, 0), <<key>>, EnrichEnv("ok", miss)))

EnrichNext ==
    \/ \E records \in StageEvents("segment") : RunSegment(records)
    \/ \E key \in StageKeys("enrich"), miss \in EnrichMisses : RunEnrichMiss(key, miss)

SpecEnrich == InitPipe /\ [][EnrichNext]_vars

\* a Merge invocation starts on a raw object
RaceStart(i, ev) ==
    /\ racePc[i] = "idle"
    /\ nMerge < MaxMerge
    /\ nMerge' = nMerge + 1
    /\ racePc' = [racePc EXCEPT ![i] = "start"]
    /\ raceRaw' = [raceRaw EXCEPT ![i] = ev]
    /\ UNCHANGED <<files, stubs, invoked, now, lastRaw, prevFiles, lastNow>>
    /\ UNCHANGED <<raceSnap, raceOverlap, raceMerged>>
    /\ UNCHANGED notRaceVars

\* load_existing_jsonl in write_merged_jsonl: the invocation reads the
\* points.jsonl of the day
RaceRead(i) ==
    /\ racePc[i] = "start"
    /\ racePc' = [racePc EXCEPT ![i] = "read"]
    /\ raceSnap' = [raceSnap EXCEPT ![i] = files]
    /\ raceOverlap' = (raceOverlap \/ \E j \in Invocations : j # i /\ racePc[j] = "read")
    /\ UNCHANGED <<files, stubs, invoked, now, lastRaw, prevFiles, lastNow, nMerge>>
    /\ UNCHANGED <<raceRaw, raceMerged>>
    /\ UNCHANGED notRaceVars

\* put_object in write_merged_jsonl, then the Segment invocation and the
\* diary stub: what the invocation read, merged with its points, replaces
\* the points.jsonl of the day
RaceWrite(i) ==
    /\ racePc[i] = "read"
    /\ LET points == normalize_payload(raceRaw[i].payload, now)
           day    == day_from_iso(points[1].ts)
           st     == process_raw_object(
                         [files |-> raceSnap[i], invoked |-> invoked, stubs |-> stubs],
                         raceRaw[i], now, FALSE)
       IN  /\ files' = Put(files, day, st.files[day])
           /\ invoked' = st.invoked
           /\ stubs' = st.stubs
           /\ raceMerged' = raceMerged \cup {<<day, DedupKey(points[1])>>}
    /\ racePc' = [racePc EXCEPT ![i] = "idle"]
    /\ UNCHANGED <<now, lastRaw, prevFiles, lastNow, nMerge>>
    /\ UNCHANGED <<raceRaw, raceSnap, raceOverlap>>
    /\ UNCHANGED notRaceVars

RaceNext ==
    \/ \E i \in Invocations, ev \in RaceRaws : RaceStart(i, ev)
    \/ \E i \in Invocations : RaceRead(i)
    \/ \E i \in Invocations : RaceWrite(i)

SpecRace == Init /\ [][RaceNext]_vars

\* lambda_handler of Merge on an event, with the services behaving as env
MergeTx(records, env) ==
    /\ nMerge < MaxTx
    /\ nMerge' = nMerge + 1
    /\ txIn' = [records |-> records, env |-> env]
    /\ tx' = TxHandler(TxOut(files, stubs, <<>>, FALSE, 0, 0, FALSE), records, 1, now, env)
    /\ files' = tx'.files
    /\ stubs' = tx'.stubs
    /\ invoked' = invoked \cup {tx'.log[k].day : k \in {j \in 1..Len(tx'.log) :
                                                        tx'.log[j].op = "invoke"}}
    /\ prevFiles' = files
    /\ lastNow' = now
    /\ UNCHANGED <<now, lastRaw>>
    /\ UNCHANGED notTxVars

TxNext == \E records \in TxEvents, env \in TxEnvs : MergeTx(records, env)

SpecTx == Init /\ [][TxNext]_vars

\* a segment of the array read from stays.json or visits.json
EnAddSegment(inp) ==
    /\ enKind = ""
    /\ Len(enIn) < MaxSegs
    /\ enIn' = Append(enIn, inp)
    /\ UNCHANGED <<enOut, enKind>>
    /\ UNCHANGED notEnVars

\* enrich_stays(stays)
EnrichStays ==
    /\ enKind = ""
    /\ enKind' = "stays"
    /\ enOut' = enrich_stays_calls([i \in 1..Len(enIn) |-> enIn[i].seg],
                                   [i \in 1..Len(enIn) |-> enIn[i].plan])
    /\ UNCHANGED enIn
    /\ UNCHANGED notEnVars

\* enrich_visits(visits)
EnrichVisits ==
    /\ enKind = ""
    /\ enKind' = "visits"
    /\ enOut' = enrich_visits_calls([i \in 1..Len(enIn) |-> enIn[i].seg],
                                    [i \in 1..Len(enIn) |-> enIn[i].plan])
    /\ UNCHANGED enIn
    /\ UNCHANGED notEnVars

EnNext ==
    \/ \E inp \in EnInputs : EnAddSegment(inp)
    \/ EnrichStays
    \/ EnrichVisits

SpecSegments == Init /\ [][EnNext]_vars

\* A Merge invocation, run to completion (the Merge invocations are
\* serialized): the raw object is merged into points.jsonl and Segment is
\* invoked for that key (invoke_lambda_async), to run later.
ChainMerge(raw) ==
    /\ Len(chPc) < MaxChain
    /\ LET rawKey == Key(RawPrefix, <<Len(chPc) + 1>>)
           out    == merge_record(HOut(Put(bucket, rawKey, raw), {}, FALSE, 0, 0), rawKey, now)
       IN  bucket' = out.store
    /\ chPc' = Append(chPc, "invoked")
    /\ chSnap' = Append(chSnap, EmptyStore)
    /\ UNCHANGED <<pipeEv, pipeOut, nRuns>>
    /\ UNCHANGED notChVars

\* read_points_jsonl of the Segment invocation i
ChainSegRead(i) ==
    /\ chPc[i] = "invoked"
    /\ chPc' = [chPc EXCEPT ![i] = "read"]
    /\ chSnap' = [chSnap EXCEPT ![i] = bucket]
    /\ UNCHANGED pipeVars
    /\ UNCHANGED notChVars

\* write_json of stays.json: the segmentation of the points the invocation
\* read
ChainSegWriteStays(i) ==
    /\ chPc[i] = "read"
    /\ chPc' = [chPc EXCEPT ![i] = "stays"]
    /\ LET out == segment_record(HOut(chSnap[i], {}, FALSE, 0, 0), ChainKey)
           k   == Key(D5, "stays.json")
       IN  bucket' = Put(bucket, k, out.store[k])
    /\ UNCHANGED <<pipeEv, pipeOut, nRuns, chSnap>>
    /\ UNCHANGED notChVars

\* write_json of visits.json, after which the invocation returns
ChainSegWriteVisits(i) ==
    /\ chPc[i] = "stays"
    /\ chPc' = [chPc EXCEPT ![i] = "done"]
    /\ LET out == segment_record(HOut(chSnap[i], {}, FALSE, 0, 0), ChainKey)
           k   == Key(D5, "visits.json")
       IN  bucket' = Put(bucket, k, out.store[k])
    /\ UNCHANGED <<pipeEv, pipeOut, nRuns, chSnap>>
    /\ UNCHANGED notChVars

ChainNext ==
    \/ \E raw \in ChainRaws : ChainMerge(raw)
    \/ \E i \in 1..Len(chPc) : ChainSegRead(i)
    \/ \E i \in 1..Len(chPc) : ChainSegWriteStays(i)
    \/ \E i \in 1..Len(chPc) : ChainSegWriteVisits(i)

SpecChain == Init /\ [][ChainNext]_vars

----------------------------------------------------------------------------
(* Claims about Merge *)

Instant(ts) == ParseIso(ts)

UtcDayOf(ts) == <<DigitChar((ParseIso(ts) \div MsPerSec) \div SecsPerDay)>>

\* C1: every points.jsonl written by Merge has its records in non-decreasing
\* order of the instants their ts denote (records whose ts denotes no
\* instant are left out of the comparison), and no two records share the
\* key (ts, round(lat,6), round(lon,6)).
C1_SortedByInstantNoDup ==
    \A d \in DOMAIN files :
        \A i, j \in 1..Len(files[d]) :
            i < j =>
                /\ (Instant(files[d][i].ts) # NoParse /\ Instant(files[d][j].ts) # NoParse)
                       => Instant(files[d][i].ts) <= Instant(files[d][j].ts)
                /\ DedupKey(files[d][i]) # DedupKey(files[d][j])

MergeStep == nMerge' = nMerge + 1

\* C2: Merge is idempotent: a Merge invocation that processes the same raw
\* object as the invocation before it leaves every points.jsonl unchanged.
C2_Idempotent ==
    [][(MergeStep /\ lastRaw' = lastRaw) => files' = files]_vars

OneDay(ev, clock) ==
    LET ds == DaysOf(normalize_payload(ev.payload, clock), {})
    IN  IF ev.isRaw /\ Len(ds) = 1 THEN ds ELSE <<>>

FilesAfter(store, ev, clock) ==
    process_raw_object([files |-> store, invoked |-> {}, stubs |-> EmptyStore],
                       ev, clock, FALSE).files

\* C3: Merge is commutative without concurrency: when two consecutive Merge
\* invocations process raw objects R1 then R2 of the same device and day,
\* the resulting points.jsonl is the one that R2 then R1 (each reading the
\* clock it read) would have produced from the same starting store.
C3_Commutes ==
    [][(/\ MergeStep
        /\ OneDay(lastRaw, lastNow) # <<>>
        /\ OneDay(lastRaw', now) = OneDay(lastRaw, lastNow))
       => files' = FilesAfter(FilesAfter(prevFiles, lastRaw', now), lastRaw, lastNow)]_vars

\* C5: every record of processed/{device}/date=D/points.jsonl has a ts that
\* denotes an instant whose UTC day is D.
C5_RoutedToOwnDay ==
    \A d \in DOMAIN files :
        \A i \in 1..Len(files[d]) :
            /\ Instant(files[d][i].ts) # NoParse
            /\ UtcDayOf(files[d][i].ts) = d

\* a timestamp the code can interpret: a number, or a string fromisoformat
\* accepts
Decidable(ts) == ts.k = "num" \/ (ts.k = "str" /\ ParseIso(ts.s) # NoParse)

\* the instant a decidable timestamp denotes
InstantOf(ts) ==
    IF ts.k = "num" THEN (IF ts.n > MsCut THEN ts.n ELSE ts.n * MsPerSec) ELSE ParseIso(ts.s)

\* the record r is the normal form of a location of the payload whose lat,
\* lon and timestamp are all present and decidable
FromInput(r, payload) ==
    \E k \in 1..Len(payload.locations) :
        LET loc == payload.locations[k]
        IN  /\ loc.lat # NoneVal /\ loc.lon # NoneVal
            /\ Decidable(loc.timestamp)
            /\ r = Point(payload.deviceId, loc.lat, loc.lon, FormatUtc(InstantOf(loc.timestamp)))

\* C11: normalization never defaults an undecidable field: every record a
\* Merge invocation adds to a points.jsonl carries the lat, the lon and the
\* time of a location of the raw object whose three fields are present and
\* decidable (its ts is never the current clock, nor an unparsed string).
C11_NeverDefaulted ==
    [][MergeStep =>
          \A d \in DOMAIN files' :
              \A i \in 1..Len(files'[d]) :
                  \/ /\ d \in DOMAIN files
                     /\ \E j \in 1..Len(files[d]) : files[d][j] = files'[d][i]
                  \/ FromInput(files'[d][i], lastRaw'.payload)]_vars

\* the merged point is in the points.jsonl of its day
PointPresent(m) ==
    /\ m[1] \in DOMAIN files
    /\ \E k \in 1..Len(files[m[1]]) : DedupKey(files[m[1]][k]) = m[2]

\* C19: when Merge invocations run one after the other (no two of them are
\* between their read and their write at the same time), every point of
\* every completed invocation is in the points.jsonl of its day; the
\* witness is the state the claim says interleaving reaches: two
\* invocations read the same baseline, the later write replaces the
\* earlier one and a merged point is missing.
C19_NoLossWithoutOverlap ==
    ~raceOverlap => \A m \in raceMerged : PointPresent(m)

C19_Witness ==
    /\ raceOverlap
    /\ \A i \in Invocations : racePc[i] = "idle"
    /\ raceSnap[1] = raceSnap[2]
    /\ \E m \in raceMerged : ~PointPresent(m)

\* the log with every failed invocation shown as one that succeeded
AsInvoked(log) ==
    [k \in 1..Len(log) |->
        IF log[k].op = "invoke_failed" THEN Call("invoke", log[k].rec, log[k].day)
        ELSE log[k]]

\* C23: in a Merge transaction, Segment is invoked for a points.jsonl only
\* right after the put of that points.jsonl has succeeded, and never for a
\* put that failed; a failed invocation is swallowed: the stub is written
\* next, and the calls, the objects, the count and the ok result of the
\* transaction are those of the transaction in which the invocation
\* succeeded.
C23_InvokeAfterWrite ==
    [][nMerge' = nMerge + 1 =>
          LET log == tx'.log
              ref == TxHandler(TxOut(files, stubs, <<>>, FALSE, 0, 0, FALSE), txIn'.records, 1,
                               now, [txIn'.env EXCEPT !.fail = "none"])
          IN  /\ \A p \in 1..Len(log) :
                     /\ log[p].op \in {"invoke", "invoke_failed"} =>
                            p > 1 /\ log[p - 1] = Call("put", log[p].rec, log[p].day)
                     /\ log[p].op = "put_failed" =>
                            \A q \in 1..Len(log) :
                                ~(/\ log[q].op \in {"invoke", "invoke_failed"}
                                  /\ log[q].rec = log[p].rec /\ log[q].day = log[p].day)
                     /\ log[p].op = "invoke_failed" =>
                            /\ p < Len(log)
                            /\ log[p + 1] = Call("stub", log[p].rec, log[p].day)
              /\ tx'.ok
              /\ txIn'.env.fail = "invoke" =>
                     /\ AsInvoked(log) = ref.log
                     /\ tx'.files = ref.files /\ tx'.stubs = ref.stubs
                     /\ tx'.appended = ref.appended]_vars

\* an invocation failed for the first day of the first record, and the day
\* after it and the record after it were merged
C23_Witness ==
    /\ tx.ok
    /\ Len(tx.log) >= 9
    /\ tx.log[2].op = "invoke_failed"
    /\ tx.log[3].op = "stub"
    /\ \E p \in 4..Len(tx.log) : tx.log[p].op = "put" /\ tx.log[p].rec = 1
    /\ \E p \in 4..Len(tx.log) : tx.log[p].op = "put" /\ tx.log[p].rec = 2

\* C27: without concurrency, every dedup key (ts, round(lat, 6),
\* round(lon, 6)) present in a points.jsonl before a Merge transaction is
\* present in it after the transaction, whatever the outcome of the read
\* of the existing file.
C27_NoPointRemoved ==
    [][nMerge' = nMerge + 1 =>
          \A d \in DOMAIN files :
              /\ d \in DOMAIN files'
              /\ \A k \in 1..Len(files[d]) :
                     \E j \in 1..Len(files'[d]) :
                         DedupKey(files'[d][j]) = DedupKey(files[d][k])]_vars

----------------------------------------------------------------------------
(* Claims about Ingest *)

\* the same for Ingest: every stored raw object carries the lat, the lon and
\* the time of a location of the request whose three fields are decidable
IngestNeverDefaulted ==
    \A key \in DOMAIN rawStore :
        \E k \in 1..Len(ingBody.locations) :
            LET loc == ingBody.locations[k]
            IN  /\ ~FloatRaises(loc.lat) /\ ~FloatRaises(loc.lon)
                /\ Decidable(loc.timestamp)
                /\ rawStore[key].latitude = loc.lat
                /\ rawStore[key].longitude = loc.lon
                /\ rawStore[key].timestamp = InstantOf(loc.timestamp)

\* the records of the request that have coordinates, in both forms
ValidRecords ==
    IF ingBody.kind \in {"single", "batch"} THEN BatchRecords(ingBody, now) ELSE <<>>

\* C12: for every non-OPTIONS request, Ingest returns either status 400
\* with ok = false (malformed JSON, missing coordinates in the single form,
\* or a batch with no valid location), having stored no raw object, or
\* status 200 with ok = true, saved = the number of returned keys and every
\* returned key naming a stored raw object; the handler never ends without
\* a structured response.
C12_StructuredResponse ==
    (ingRan /\ ingBody.kind # "options") =>
        /\ ingResp.kind = "resp"
        /\ \/ /\ ingResp.status = 400
              /\ ingResp.ok = FALSE
              /\ ingBody.kind = "invalid_json" \/ ValidRecords = <<>>
              /\ rawStore = EmptyStore
              /\ ingPuts = <<>>
           \/ /\ ingResp.status = 200
              /\ ingResp.ok = TRUE
              /\ ingResp.saved = Len(ingResp.keys)
              /\ \A k \in 1..Len(ingResp.keys) : ingResp.keys[k] \in DOMAIN rawStore

\* a tracker update, or a reverse-geocode lookup, was made and raised
TrackerFailed == ingEnv.tracker = "fail" /\ ingCalls > 0

GeocodeFailed == ingEnv.geo = "fail" /\ ingPuts # <<>>

\* C13: when a tracker update or a reverse-geocode lookup fails, the put of
\* raw/{deviceId}/{tsMs}-{rid}-{idx}.json is still made for every valid
\* record of the request (without the address when the lookup failed), and
\* the response is 200.
C13_ServiceFailureNonFatal ==
    (ingRan /\ (TrackerFailed \/ GeocodeFailed)) =>
        /\ ingResp.kind = "resp" /\ ingResp.status = 200
        /\ Len(ingPuts) = Len(ValidRecords)
        /\ \A i \in 1..Len(ValidRecords) :
              /\ ingPuts[i] = RawKey(ingBody.deviceId, ValidRecords[i].ts_ms, i - 1)
              /\ (i - 1) \notin ingEnv.putFails =>
                    /\ ingPuts[i] \in DOMAIN rawStore
                    /\ GeocodeFailed => rawStore[ingPuts[i]].address = ""

\* a batch of two valid records, the tracker update and the lookups all
\* raising: both raw objects are stored
C13_Witness ==
    /\ ingRan
    /\ TrackerFailed /\ GeocodeFailed
    /\ Len(ValidRecords) = 2
    /\ Cardinality(DOMAIN rawStore) = 2
    /\ ingResp.status = 200 /\ ingResp.saved = 2

----------------------------------------------------------------------------
(* Claims about the stage handlers *)

PipeStep == nRuns' = nRuns + 1

\* the handler of the stage of ev, run on the event `records`
RunOn(ev, records, st) ==
    LET out == HOut(st, {}, FALSE, 0, 0)
    IN  IF ev.stage = "merge" THEN MergeHandler(out, records, now)
        ELSE IF ev.stage = "segment" THEN SegmentHandler(out, records)
        ELSE IF ev.stage = "enrich" THEN EnrichHandler(out, records, EnrichEnv(ev.geo, ev.miss))
        ELSE TripsHandler(out, records, ev.router)

\* C14: in every stage handler, a record of the event whose own processing
\* succeeds (the handler invoked for it alone writes its outputs) has its
\* outputs written whatever happens to the other records of the event.
C14_SiblingsProcessed ==
    [][PipeStep =>
          \A i \in 1..Len(pipeEv'.records) :
              LET alone == RunOn(pipeEv', <<pipeEv'.records[i]>>, bucket)
              IN  ~alone.raised => alone.writes \subseteq pipeOut'.writes]_vars

\* the names a stage owns
OwnNames(stage) ==
    IF stage = "merge" THEN {"points.jsonl", "diary_stub.txt"}
    ELSE IF stage = "segment" THEN {"stays.json", "visits.json"}
    ELSE IF stage = "enrich" THEN {"stays_enriched.json", "visits_enriched.json"}
    ELSE {"trips.json", "geojson.json"}

\* the prefixes of the triggering keys
TriggerPrefixes(ev) == {ev.records[i][1] : i \in 1..Len(ev.records)}

\* processed/{deviceId}/date={day} for the days of the points of the raw
\* objects of the event
MergeDayPrefixes(ev, st) ==
    UNION {LET days == DaysOf(normalize_payload(st[ev.records[i]].v[1], now), {})
           IN  {days[k] : k \in 1..Len(days)} :
               i \in {j \in 1..Len(ev.records) :
                         ev.records[j] \in DOMAIN st /\ st[ev.records[j]].kind = "raw"}}

\* every object the invocation did not write is as it was
FrameKept ==
    /\ DOMAIN bucket \subseteq DOMAIN bucket'
    /\ \A k \in DOMAIN bucket' :
          k \notin pipeOut'.writes => (k \in DOMAIN bucket /\ bucket'[k] = bucket[k])

\* C17 as stated: every stage writes only keys with its own names, all under
\* the prefix of the triggering key, and leaves every other object of the
\* store unchanged.
C17_OwnKeysUnderTriggerPrefix ==
    [][PipeStep =>
          /\ \A k \in pipeOut'.writes :
                k[2] \in OwnNames(pipeEv'.stage) /\ k[1] \in TriggerPrefixes(pipeEv')
          /\ FrameKept]_vars

\* C17 amended: every stage writes only keys with its own names and leaves
\* every other object unchanged; Segment, Enrich and Trips write under the
\* prefix of the triggering key, Merge (whose triggering key is under raw/)
\* under processed/{deviceId}/date={day} for the days of the points of the
\* raw object.
C17_OwnKeysOnly ==
    [][PipeStep =>
          /\ \A k \in pipeOut'.writes :
                /\ k[2] \in OwnNames(pipeEv'.stage)
                /\ IF pipeEv'.stage = "merge" THEN k[1] \in MergeDayPrefixes(pipeEv', bucket)
                   ELSE k[1] \in TriggerPrefixes(pipeEv')
          /\ FrameKept]_vars

\* Enrich has written stays_enriched.json next to a stays.json, a
\* visits.json and a points.jsonl that it left as they were
C17_Witness ==
    /\ pipeEv.stage = "enrich"
    /\ pipeOut.writes = {Key(D5, "stays_enriched.json")}
    /\ {Key(D5, "points.jsonl"), Key(D5, "stays.json"), Key(D5, "visits.json")}
           \subseteq DOMAIN bucket
    /\ bucket[Key(D5, "stays_enriched.json")].v # <<>>

\* the output keys of the stage for the triggering key
OutKeys(stage, key) ==
    IF stage = "enrich"
    THEN {Key(key[1], IF key[2] = "stays.json" THEN "stays_enriched.json"
                      ELSE "visits_enriched.json")}
    ELSE {Key(key[1], "trips.json"), Key(key[1], "geojson.json")}

\* the records of the event whose object is JSON but not an array
DriftRecords(ev, st) ==
    {i \in 1..Len(ev.records) :
        ev.records[i] \in DOMAIN st /\ st[ev.records[i]].kind = "notlist"}

\* C22 as stated: when the input object of Enrich or Trips is JSON of the
\* wrong top-level shape, the stage writes no output object for it.
C22_WrongShapeNoOutput ==
    [][(PipeStep /\ pipeEv'.stage \in {"enrich", "trips"}) =>
          \A i \in DriftRecords(pipeEv', bucket) :
              OutKeys(pipeEv'.stage, pipeEv'.records[i]) \cap pipeOut'.writes = {}]_vars

\* C22 amended: when stays.json or visits.json holds JSON that is not an
\* array, Enrich skips the record and writes no output object for it (the
\* enriched object, if there was one, stays as it was); when
\* stays_enriched.json holds JSON that is not an array, Trips does not
\* skip: it writes trips.json as the empty array and geojson.json as the
\* FeatureCollection with no features.
C22_WrongShapeByStage ==
    [][(PipeStep /\ pipeEv'.stage \in {"enrich", "trips"}) =>
          \A i \in DriftRecords(pipeEv', bucket) :
              LET key  == pipeEv'.records[i]
                  outs == OutKeys(pipeEv'.stage, key)
              IN  IF pipeEv'.stage = "enrich"
                  THEN /\ outs \cap pipeOut'.writes = {}
                       /\ \A k \in outs :
                              /\ k \in DOMAIN bucket' <=> k \in DOMAIN bucket
                              /\ k \in DOMAIN bucket => bucket'[k] = bucket[k]
                  ELSE /\ outs \subseteq pipeOut'.writes
                       /\ bucket'[Key(key[1], "trips.json")] = EmptyList
                       /\ bucket'[Key(key[1], "geojson.json")] = EmptyFeatureCollection]_vars

\* Enrich has run on a stays.json that is not an array, written nothing and
\* ended without an exception
C22_Witness ==
    /\ pipeEv.stage = "enrich"
    /\ DriftRecords(pipeEv, bucket) # {}
    /\ pipeOut.writes = {}
    /\ ~pipeOut.raised

\* C20: when Enrich is triggered for a stays.json or visits.json that is
\* not yet visible, the read is retried up to 5 times: an object that is
\* visible to one of the 5 read attempts is read and its enriched output
\* written, and only an object invisible to all 5 attempts is abandoned,
\* after the directory listing is logged.
C20_ReadRetried ==
    [][(/\ PipeStep
        /\ pipeEv'.stage = "enrich" /\ Len(pipeEv'.records) = 1
        /\ pipeEv'.records[1] \in DOMAIN bucket
        /\ bucket[pipeEv'.records[1]].kind = "list")
       => LET key     == pipeEv'.records[1]
              outKey  == Key(key[1], IF key[2] = "stays.json" THEN "stays_enriched.json"
                                     ELSE "visits_enriched.json")
              visible == \E i \in 1..EnrichRetries : (i + 1) \notin pipeEv'.miss
          IN  /\ pipeOut'.gets <= EnrichRetries
              /\ visible => outKey \in pipeOut'.writes
              /\ ~visible => /\ pipeOut'.writes = {}
                             /\ pipeOut'.dumps >= 1]_vars

\* the points read_points_jsonl returns for the key are at most one, each
\* with a ts that denotes an instant
AtMostOnePoint(st, key) ==
    /\ ~PointsReadRaises(st, key)
    /\ Len(read_points_jsonl(st, key)) <= 1
    /\ ~DetectRaises(read_points_jsonl(st, key))

\* the handler gets to the i-th record of the event: Segment and Enrich
\* stop at the first record that raises, Merge and Trips go on
Reached(ev, i, st) ==
    \/ ev.stage \in {"merge", "trips"}
    \/ \A j \in 1..(i - 1) : ~RunOn(ev, <<ev.records[j]>>, st).raised

\* C18: for a points.jsonl with no point or with exactly one point, the
\* Segment stage writes stays.json and visits.json as empty arrays (both
\* regimes of detect_segments return no segment); for an empty stays.json
\* or visits.json, Enrich writes the enriched array empty; for an empty
\* stays_enriched.json, Trips writes trips.json as the empty array and
\* geojson.json as the FeatureCollection with no features.  (Stated for
\* every record of the event that the handler gets to.)
C18_EmptyDownTheChain ==
    [][PipeStep =>
          \A i \in 1..Len(pipeEv'.records) :
              LET key == pipeEv'.records[i]
                  d   == key[1]
              IN  Reached(pipeEv', i, bucket) =>
                  /\ (pipeEv'.stage = "segment" /\ AtMostOnePoint(bucket, key)) =>
                         /\ Key(d, "stays.json") \in DOMAIN bucket'
                         /\ bucket'[Key(d, "stays.json")] = EmptyList
                         /\ Key(d, "visits.json") \in DOMAIN bucket'
                         /\ bucket'[Key(d, "visits.json")] = EmptyList
                  /\ (/\ pipeEv'.stage = "enrich"
                      /\ key \in DOMAIN bucket /\ bucket[key] = EmptyList) =>
                         LET outKey == Key(d, IF key[2] = "stays.json"
                                              THEN "stays_enriched.json"
                                              ELSE "visits_enriched.json")
                         IN  outKey \in DOMAIN bucket' /\ bucket'[outKey] = EmptyList
                  /\ (/\ pipeEv'.stage = "trips"
                      /\ key \in DOMAIN bucket /\ bucket[key] = EmptyList) =>
                         /\ Key(d, "trips.json") \in DOMAIN bucket'
                         /\ bucket'[Key(d, "trips.json")] = EmptyList
                         /\ Key(d, "geojson.json") \in DOMAIN bucket'
                         /\ bucket'[Key(d, "geojson.json")] = EmptyFeatureCollection]_vars

\* the whole chain has run on a points.jsonl with exactly one point
C18_Witness ==
    /\ Key(D5, "points.jsonl") \in DOMAIN bucket
    /\ bucket[Key(D5, "points.jsonl")] = PtsOne
    /\ pipeEv.stage = "trips"
    /\ \A n \in {"stays.json", "visits.json", "stays_enriched.json", "visits_enriched.json",
                 "trips.json"} :
           Key(D5, n) \in DOMAIN bucket /\ bucket[Key(D5, n)] = EmptyList
    /\ Key(D5, "geojson.json") \in DOMAIN bucket
    /\ bucket[Key(D5, "geojson.json")] = EmptyFeatureCollection

\* C15: when stays_enriched.json holds an empty array, a non-array value or
\* an array with a single stay, the Trips stage writes trips.json = [] and
\* geojson.json = a FeatureCollection with no features, for every record
\* of the event.
C15_EmptyOrInvalidStays ==
    [][(PipeStep /\ pipeEv'.stage = "trips") =>
          \A i \in 1..Len(pipeEv'.records) :
              LET key == pipeEv'.records[i]
                  d   == key[1]
              IN  (/\ key \in DOMAIN bucket
                   /\ \/ bucket[key].kind = "notlist"
                      \/ bucket[key].kind = "list" /\ Len(bucket[key].v) <= 1)
                  => /\ Key(d, "trips.json") \in DOMAIN bucket'
                     /\ bucket'[Key(d, "trips.json")] = EmptyList
                     /\ Key(d, "geojson.json") \in DOMAIN bucket'
                     /\ bucket'[Key(d, "geojson.json")] = EmptyFeatureCollection]_vars

\* Trips has run on a stays_enriched.json that is not an array
C15_Witness ==
    /\ pipeEv.stage = "trips"
    /\ \E d \in Days :
           /\ pipeEv.records[1] = Key(d, "stays_enriched.json")
           /\ Key(d, "stays_enriched.json") \in DOMAIN bucket
           /\ bucket[Key(d, "stays_enriched.json")].kind = "notlist"
           /\ pipeOut.writes = {Key(d, "trips.json"), Key(d, "geojson.json")}
           /\ bucket[Key(d, "trips.json")] = EmptyList

----------------------------------------------------------------------------
(* Claims about the chain Merge then Segment *)

\* C26: once every Segment invocation triggered by the merges of the raw
\* objects of one (device, day) has returned, stays.json and visits.json
\* are the segmentation of the points.jsonl in the store.
C26_SegmentationOfFinalPoints ==
    (chPc # <<>> /\ \A i \in 1..Len(chPc) : chPc[i] = "done") =>
        LET points == read_points_jsonl(bucket, ChainKey)
        IN  /\ bucket[Key(D5, "stays.json")] = SegmentsJson(points, StayRadiusM, StayMinSec)
            /\ bucket[Key(D5, "visits.json")] = SegmentsJson(points, VisitRadiusM, VisitMinSec)

----------------------------------------------------------------------------
(* Claims about enrich_stays and enrich_visits *)

\* the segment has a center with a latitude and a longitude that are numbers
ValidCenter(seg) ==
    /\ "center" \in DOMAIN seg
    /\ ~FloatRaises(seg.center.lat) /\ ~FloatRaises(seg.center.lon)

\* C24: for each segment with a valid center, the reverse geocoder is
\* called at most 3 times, the calls stop at the first one that returns
\* (with a result: the label is set; without: label = null), and after 3
\* failed calls the label is null; the output has every segment of the
\* input, and what a segment gets does not depend on the calls made for
\* the other segments.
C24_GeocodeRetries ==
    enKind # "" =>
        /\ Len(enOut) = Len(enIn)
        /\ \A i \in 1..Len(enIn) :
               LET plan     == enIn[i].plan
                   returned == {k \in 1..3 : plan[k] # "fail"}
               IN  ValidCenter(enIn[i].seg) =>
                       /\ enOut[i].calls \in 1..3
                       /\ enOut[i].seg.center = enIn[i].seg.center
                       /\ returned = {} => enOut[i].calls = 3 /\ enOut[i].seg.label = ""
                       /\ returned # {} =>
                              /\ enOut[i].calls \in returned
                              /\ \A k \in returned : enOut[i].calls <= k
                              /\ enOut[i].seg.label =
                                     (IF plan[enOut[i].calls] = "ok" THEN "L" ELSE "")

\* the first segment got label = null after 3 failed calls and the second
\* got its label from the second call
C24_Witness ==
    /\ enKind = "stays"
    /\ Len(enIn) = 2
    /\ enIn[1].plan = AllFail /\ ValidCenter(enIn[1].seg)
    /\ enOut[1].calls = 3 /\ enOut[1].seg.label = ""
    /\ ValidCenter(enIn[2].seg)
    /\ enOut[2].calls = 2 /\ enOut[2].seg.label = "L"

\* the output has the segments of the input in their order, each with the
\* fields it had, but for label
ArrayPreserved ==
    /\ Len(enOut) = Len(enIn)
    /\ \A i \in 1..Len(enIn) :
           /\ DOMAIN enOut[i].seg = DOMAIN enIn[i].seg \cup {"label"}
           /\ \A f \in DOMAIN enIn[i].seg \ {"label"} : enOut[i].seg[f] = enIn[i].seg[f]

\* the segment has no center, or a center without lat or without lon
CenterMissing(seg) ==
    \/ "center" \notin DOMAIN seg
    \/ seg.center.lat = NoneVal \/ seg.center.lon = NoneVal

\* the visit has lat and lon in none of center, point, location and itself
NowhereLocated(v) ==
    /\ \A f \in {"center", "point", "location"} \cap DOMAIN v :
           v[f].lat = NoneVal \/ v[f].lon = NoneVal
    /\ "lat" \notin DOMAIN v \/ "lon" \notin DOMAIN v

\* C28 as stated: the enriched array has the segments of the input in the
\* same order with center, start and end unchanged, and a segment whose
\* center is missing gets label = null without a geocoder call.
C28_ArrayPreserved ==
    enKind # "" =>
        /\ ArrayPreserved
        /\ \A i \in 1..Len(enIn) :
               CenterMissing(enIn[i].seg) =>
                   enOut[i].seg.label = "" /\ enOut[i].calls = 0

\* C28 amended: the array is preserved as stated; a stay whose center is
\* missing gets label = null without a geocoder call; a visit without
\* center is located by its point, else its location, else its own lat and
\* lon, and gets label = null without a geocoder call when none of them has
\* both lat and lon.
C28_ArrayPreservedByKind ==
    enKind # "" =>
        /\ ArrayPreserved
        /\ \A i \in 1..Len(enIn) :
               LET seg == enIn[i].seg
               IN  /\ (enKind = "stays" /\ CenterMissing(seg)) =>
                          enOut[i].seg.label = "" /\ enOut[i].calls = 0
                   /\ (enKind = "visits" /\ "center" \in DOMAIN seg /\ CenterMissing(seg)) =>
                          enOut[i].seg.label = "" /\ enOut[i].calls = 0
                   /\ (enKind = "visits" /\ NowhereLocated(seg)) =>
                          enOut[i].seg.label = "" /\ enOut[i].calls = 0
                   /\ (/\ enKind = "visits" /\ "center" \notin DOMAIN seg
                       /\ ~NowhereLocated(seg) /\ enIn[i].plan = AllOk) =>
                          enOut[i].seg.label = "L" /\ enOut[i].calls = 1

\* enrich_stays has passed a stay without center through, after a stay
\* that it labelled
C28_Witness ==
    /\ enKind = "stays"
    /\ Len(enIn) = 2
    /\ enOut[1].seg.label = "L"
    /\ "center" \notin DOMAIN enIn[2].seg
    /\ enOut[2].seg = [start |-> T0, end |-> T1, label |-> ""]
    /\ enOut[2].calls = 0

----------------------------------------------------------------------------
(* Claims about detect_segments *)

\* C4: every segment returned by detect_segments has end >= start and a
\* duration end - start of at least the minimum duration.
C4_SegmentDuration ==
    segRan =>
        \A k \in 1..Len(segOut) :
            /\ iso2dt(segOut[k].end) >= iso2dt(segOut[k].start)
            /\ iso2dt(segOut[k].end) - iso2dt(segOut[k].start) >= segMinDur * MsPerSec

\* C9: every segment returned by detect_segments covers a window of at
\* least 2 points of the input sequence.
C9_WindowHasTwoPoints ==
    segRan => \A k \in 1..Len(segWins) : segWins[k].hi - segWins[k].lo >= 2

\* the maximum distance from the centroid of the first k points is within
\* the radius, for every k
AllPrefixesWithin ==
    \A k \in 1..Len(segPoints) :
        LET w == SubSeq(segPoints, 1, k)
        IN  \A q \in 1..k :
                Abs(w[q].lat * k - SumLat(w)) * MmPerLatUnit <= segRadius * MmPerM * k

TotalDur == iso2dt(segPoints[Len(segPoints)].ts) - iso2dt(segPoints[1].ts)

\* C10: when no prefix of the point sequence exceeds the radius,
\* detect_segments returns exactly one segment, from the first point's ts to
\* the last point's ts, if last.ts - first.ts is at least the minimum
\* duration, and no segment if it is shorter.
C10_WithinRadiusOneSegment ==
    (segRan /\ segPoints # <<>> /\ AllPrefixesWithin) =>
        IF TotalDur >= segMinDur * MsPerSec
        THEN /\ Len(segOut) = 1
             /\ segOut[1].start = segPoints[1].ts
             /\ segOut[1].end = segPoints[Len(segPoints)].ts
        ELSE segOut = <<>>

C10_Witness ==
    /\ segRan /\ Len(segPoints) >= 2 /\ AllPrefixesWithin
    /\ \E a, b \in 1..Len(segPoints) : segPoints[a].lat # segPoints[b].lat
    /\ TotalDur >= segMinDur * MsPerSec
    /\ Len(segOut) = 1

\* the windows emitted in the loop, when the radius was exceeded
RadiusWins == {k \in 1..Len(segWins) : segWins[k].restart # NoneVal}

\* C21 as stated: when the radius is exceeded and a segment is emitted, the
\* point at which the next window restarts is the last point of the
\* emitted segment.
C21_BoundaryInBoth ==
    segRan => \A k \in RadiusWins : segWins[k].restart = segWins[k].hi - 1

\* C21 amended: when the radius is exceeded and a segment is emitted, the
\* next window restarts at the point that exceeded the radius, the point
\* right after the last point of the emitted segment: the emitted segment
\* ends at the ts of the point before it and no point belongs to both.
C21_RestartAfterSegment ==
    segRan =>
        \A k \in RadiusWins :
            /\ segWins[k].restart = segWins[k].hi
            /\ segWins[k].restart \notin segWins[k].lo..(segWins[k].hi - 1)
            /\ segOut[k].end = segPoints[segWins[k].restart].ts
            /\ k < Len(segWins) => segWins[k + 1].lo >= segWins[k].restart

C21_Witness ==
    /\ segRan
    /\ \E k \in RadiusWins :
           /\ k < Len(segWins)
           /\ segWins[k + 1].lo = segWins[k].restart

\* C29: for a time-ordered point sequence, the segments returned by
\* detect_segments are contiguous subranges of the sequence, listed in
\* chronological order, and consecutive segments s, t have s.end <= t.start.
C29_SegmentsDoNotOverlap ==
    segRan =>
        /\ \A k \in 1..Len(segOut) :
               /\ 0 <= segWins[k].lo /\ segWins[k].lo < segWins[k].hi
               /\ segWins[k].hi <= Len(segPoints)
               /\ segOut[k] = SegmentOf(segPoints, segWins[k])
        /\ \A k \in 1..(Len(segOut) - 1) :
               /\ segWins[k].lo < segWins[k + 1].lo
               /\ iso2dt(segOut[k].start) <= iso2dt(segOut[k + 1].start)
               /\ iso2dt(segOut[k].end) <= iso2dt(segOut[k + 1].start)

C29_Witness ==
    /\ segRan
    /\ Len(segOut) >= 2
    /\ iso2dt(segOut[1].end) < iso2dt(segOut[2].start)

----------------------------------------------------------------------------
(* Claims about the Trips stage *)

\* the consecutive pairs (i, i+1) of the sorted stays skipped for a missing
\* center
SkippedPairs(ss) ==
    {i \in 1..(Len(ss) - 1) : ~_stay_center_ok(ss[i]) \/ ~_stay_center_ok(ss[i + 1])}

\* C6: the number of trips is max(0, |stays| - 1) minus the number of
\* consecutive pairs (in the sorted order) skipped for a missing center, and
\* the k-th trip goes from the first to the second stay of the k-th pair
\* that was not skipped: no trip bridges over a skipped stay.
C6_TripCount ==
    tripRan =>
        LET ss      == SortStays(tripStays)
            skipped == SkippedPairs(ss)
            kept    == (1..(Len(ss) - 1)) \ skipped
        IN  /\ Len(tripsJson) =
                  (IF Len(tripStays) >= 1 THEN Len(tripStays) - 1 ELSE 0) - Cardinality(skipped)
            /\ \A k \in 1..Len(tripsJson) :
                  \E i \in kept :
                      /\ Cardinality({j \in kept : j < i}) = k - 1
                      /\ tripsJson[k].from.time = OrElse(ss[i].end, ss[i].start)
                      /\ tripsJson[k].from.lat = _safe_float(ss[i].center.lat)
                      /\ tripsJson[k].to.time = OrElse(ss[i + 1].start, ss[i + 1].end)
                      /\ tripsJson[k].to.lat = _safe_float(ss[i + 1].center.lat)

\* three stays, the middle one of the sorted order without a center: both
\* pairs are skipped and no trip is written
C6_Witness ==
    /\ tripRan
    /\ Len(tripStays) = 3
    /\ LET ss == SortStays(tripStays)
       IN  /\ ~_stay_center_ok(ss[2])
           /\ _stay_center_ok(ss[1]) /\ _stay_center_ok(ss[3])
           /\ ss[1].center.lat # ss[3].center.lat
    /\ tripsJson = <<>>

RouterFailed ==
    \/ tripRouter.k \in {"unconfigured", "error"}
    \/ tripRouter.k = "resp" /\ tripRouter.legs \in {"none", "nolinestring"}

\* C7: when the route calculator is unconfigured, returns no legs, returns
\* no LineString or raises, every trip (between two numeric centers) has
\* fallback = true, the two-point geometry [[from.lon, from.lat], [to.lon,
\* to.lat]] and a distance_km that is the haversine distance of the two
\* centers (rounded as distance_km is).
C7_FallbackIsHaversine ==
    (tripRan /\ RouterFailed) =>
        \A k \in 1..Len(tripsJson) :
            LET t == tripsJson[k]
            IN  (t.from.lat # NoneVal /\ t.to.lat # NoneVal) =>
                    /\ t.fallback = TRUE
                    /\ geoJson[k].geometry =
                           << <<t.from.lon, t.from.lat>>, <<t.to.lon, t.to.lat>> >>
                    /\ t.distance_km =
                           RoundKm3(Abs(t.to.lat - t.from.lat) * MmPerLatUnit)

\* C8: every trip has from.time <= to.time when both are present.
C8_FromBeforeTo ==
    tripRan =>
        \A k \in 1..Len(tripsJson) :
            (tripsJson[k].from.time # <<>> /\ tripsJson[k].to.time # <<>>) =>
                Instant(tripsJson[k].from.time) <= Instant(tripsJson[k].to.time)

\* a JSON number
IsNumber(v) == v # NoneVal /\ v # BadVal

\* C16: every trip written has numeric from/to latitude and longitude, and
\* every LineString written has numeric coordinates: no trip is emitted for
\* a pair in which a center is missing or not convertible to a number.
C16_NumericCenters ==
    tripRan =>
        \A k \in 1..Len(tripsJson) :
            /\ IsNumber(tripsJson[k].from.lat) /\ IsNumber(tripsJson[k].from.lon)
            /\ IsNumber(tripsJson[k].to.lat) /\ IsNumber(tripsJson[k].to.lon)
            /\ \A q \in 1..Len(geoJson[k].geometry) :
                  IsNumber(geoJson[k].geometry[q][1]) /\ IsNumber(geoJson[k].geometry[q][2])

====
